---- MODULE Spec2Model ----
(***************************************************************************)
(* Qualification checker, status store and recommendation service of the   *)
(* university-program recommendation backend                                *)
(* (app/services/qualification_service.py,                                  *)
(* app/services/recommendation_service.py and the routes that call them,    *)
(* the login route with its background scan included).                      *)
(*                                                                         *)
(* Text is modelled as a sequence of one-character strings, so that         *)
(* upper(), lower(), float() and the `in` substring test are computed and    *)
(* not assumed.  Numbers parsed from text are kept in hundredths.           *)
(***************************************************************************)
EXTENDS Integers, Sequences, FiniteSets, TLC

VARIABLES
    now,            \* the clock, in ticks (datetime.utcnow / date.today)
    catalog,        \* which catalog of programs and requirements the database holds
    active,         \* program id -> Program.is_active
    test_scores,    \* the UserTestScore rows of the existing user, as a set
    qualifications, \* UserQualification rows of the existing user
    status,         \* table user_qualification_status, in primary-key order
    last_call,      \* the latest check_user_qualification call and its outcome
    scan,           \* the running check_user_against_all_programs call
    sessions,       \* concurrent requests, each with its own Session
    interests,      \* the UserInterest rows of the existing user
    login,          \* the latest login request and the task it created
    rec,            \* the latest recommendation request and its response
    helper          \* a call of a helper method on its own and its value

vars == <<now, catalog, active, test_scores, qualifications, status,
          last_call, scan, sessions, interests, login, rec, helper>>

----------------------------------------------------------------------------
(* Bounds of the model *)

NumPrograms == 2
MaxNow == 1
NumSessions == 2

----------------------------------------------------------------------------
(* Text *)

None == <<"<None>">>

S_IELTS == <<"I","E","L","T","S">>
S_ielts == <<"i","e","l","t","s">>
S_TOEFL == <<"T","O","E","F","L">>
S_TOEIC == <<"T","O","E","I","C">>
S_PTE == <<"P","T","E">>
S_GRE == <<"G","R","E">>
S_GMAT == <<"G","M","A","T">>
S_SAT == <<"S","A","T">>
S_ACT == <<"A","C","T">>
S_GOV == <<"G","O","V">>

S_test_score == <<"t","e","s","t","_","s","c","o","r","e">>
S_gpa == <<"g","p","a">>
S_degree_level == <<"d","e","g","r","e","e","_","l","e","v","e","l">>
S_language == <<"l","a","n","g","u","a","g","e">>
S_essay == <<"e","s","s","a","y">>

S_high_school == <<"h","i","g","h","_","s","c","h","o","o","l">>
S_diploma == <<"d","i","p","l","o","m","a">>
S_certificate == <<"c","e","r","t","i","f","i","c","a","t","e">>
S_bachelor == <<"b","a","c","h","e","l","o","r">>
S_Bachelor == <<"B","a","c","h","e","l","o","r">>
S_master == <<"m","a","s","t","e","r">>
S_phd == <<"p","h","d">>
S_honours == <<"h","o","n","o","u","r","s">>

S_6_5 == <<"6",".","5">>
S_7_0 == <<"7",".","0">>
S_6_0 == <<"6",".","0">>
S_6_2 == <<"6",".","2">>
S_3_5 == <<"3",".","5">>
S_3_8 == <<"3",".","8">>
S_4_0 == <<"4",".","0">>
S_0 == <<"0">>
S_abc == <<"a","b","c">>
S_ielts_desc == <<"I","e","l","t","s"," ","6",".","5">>

S_cs == <<"c","s">>
S_CS == <<"C","S">>
S_c == <<"c">>
S_law == <<"l","a","w">>

LowerLetters == <<"a","b","c","d","e","f","g","h","i","j","k","l","m",
                  "n","o","p","q","r","s","t","u","v","w","x","y","z">>
UpperLetters == <<"A","B","C","D","E","F","G","H","I","J","K","L","M",
                  "N","O","P","Q","R","S","T","U","V","W","X","Y","Z">>

\* the position of c in letters, 0 when it is not there
IndexIn(c, letters) ==
    IF \E i \in 1..Len(letters) : letters[i] = c
    THEN CHOOSE i \in 1..Len(letters) : letters[i] = c
    ELSE 0

Chars ==
    {LowerLetters[i] : i \in 1..Len(LowerLetters)}
        \cup {UpperLetters[i] : i \in 1..Len(UpperLetters)}
        \cup {"0","1","2","3","4","5","6","7","8","9",".","_"," ","<None>"}

UpperOf ==
    [c \in Chars |-> IF IndexIn(c, LowerLetters) > 0
                     THEN UpperLetters[IndexIn(c, LowerLetters)] ELSE c]

LowerOf ==
    [c \in Chars |-> IF IndexIn(c, UpperLetters) > 0
                     THEN LowerLetters[IndexIn(c, UpperLetters)] ELSE c]

\* every text the data of the model holds; the conversions below are
\* tabulated over it once
Texts ==
    {None, <<>>, S_IELTS, S_ielts, S_TOEFL, S_TOEIC, S_PTE, S_GRE, S_GMAT,
     S_SAT, S_ACT, S_GOV, S_test_score, S_gpa, S_degree_level, S_language,
     S_essay, S_high_school, S_diploma, S_certificate, S_bachelor, S_Bachelor,
     S_master, S_phd, S_honours, S_6_5, S_7_0, S_6_0, S_3_5, S_3_8, S_4_0,
     S_abc, S_ielts_desc, S_cs, S_CS, S_c, S_law, S_6_2,
     S_0}

\* str.upper()
UpperTable == [s \in Texts |-> [i \in 1..Len(s) |-> UpperOf[s[i]]]]
Upper(s) == UpperTable[s]

\* str.lower()
LowerTable == [s \in Texts |-> [i \in 1..Len(s) |-> LowerOf[s[i]]]]
Lower(s) == LowerTable[s]

\* `sub in s` on strings
Contains(sub, s) ==
    \E i \in 1..(Len(s) - Len(sub) + 1) : SubSeq(s, i, i + Len(sub) - 1) = sub

\* Python truthiness of an optional string: None and "" are falsy
Truthy(s) == s # None /\ s # <<>>

DigitChars == <<"0","1","2","3","4","5","6","7","8","9">>
DigitOf == [c \in Chars |-> IndexIn(c, DigitChars) - 1]
IsDigit(c) == DigitOf[c] >= 0
DigitVal(c) == DigitOf[c]

RECURSIVE IntOf(_)
IntOf(ds) ==
    IF ds = <<>> THEN 0
    ELSE 10 * IntOf(SubSeq(ds, 1, Len(ds) - 1)) + DigitVal(ds[Len(ds)])

\* float(s) for plain decimal text with at most two decimals: digits with an
\* optional single point and at least one digit.  ok = FALSE is the
\* ValueError (text that is no number) or TypeError (None) float() raises.
\* val is the number in hundredths.
FloatOfText(s) ==
    LET dots == {i \in 1..Len(s) : s[i] = "."}
        dot == IF dots = {} THEN Len(s) + 1 ELSE CHOOSE i \in dots : TRUE
        ip == SubSeq(s, 1, dot - 1)
        fp == SubSeq(s, dot + 1, Len(s))
        wellformed ==
            /\ s # None
            /\ Cardinality(dots) <= 1
            /\ \A i \in 1..Len(s) : s[i] = "." \/ IsDigit(s[i])
            /\ Len(ip) + Len(fp) >= 1
            /\ Len(fp) <= 2
        frac == IF Len(fp) = 0 THEN 0
                ELSE IF Len(fp) = 1 THEN 10 * IntOf(fp) ELSE IntOf(fp)
    IN  IF wellformed THEN [ok |-> TRUE, val |-> 100 * IntOf(ip) + frac]
        ELSE [ok |-> FALSE, val |-> 0]

FloatTable == [s \in Texts |-> FloatOfText(s)]
ParseFloat(s) == FloatTable[s]

----------------------------------------------------------------------------
(* Requirement evaluator: every operator returns the dict the method        *)
(* returns, with raised = TRUE when the method raises instead                *)

\* date.today(): a tick of the clock is a day
Today(t) == t

\* exc names the exception class the method raises, "" when it returns
Raised(exc) == [raised |-> TRUE, exc |-> exc, is_met |-> FALSE, details |-> ""]
Verdict(met, details) ==
    [raised |-> FALSE, exc |-> "", is_met |-> met, details |-> details]

\* the exception float(s) raises on text ParseFloat rejects
FloatError(s) == IF s = None THEN "TypeError" ELSE "ValueError"

ExtractVocabulary == <<S_IELTS, S_TOEFL, S_GRE, S_GMAT, S_SAT, S_ACT, S_GOV>>

\* _extract_test_type
ExtractTestTypeOf(description) ==
    IF ~Truthy(description) THEN <<>>
    ELSE LET hits == {i \in 1..Len(ExtractVocabulary) :
                        Contains(ExtractVocabulary[i], Upper(description))}
         IN  IF hits = {} THEN <<>>
             ELSE ExtractVocabulary[CHOOSE i \in hits : \A j \in hits : i <= j]

ExtractTable == [s \in Texts |-> ExtractTestTypeOf(s)]
ExtractTestType(description) == ExtractTable[description]

\* the expiry filter of _check_test_score_requirement
IsValidScore(score, t) ==
    score.expiry_date = <<>> \/ score.expiry_date[1] > Today(t)

\* line 156: requirement.test_type or _extract_test_type(description)
RequiredTestType(requirement) ==
    IF Truthy(requirement.test_type) THEN requirement.test_type
    ELSE ExtractTestType(requirement.description)

\* lines 161-165: the scores of the test type, whatever the case of letters
MatchingScores(scores, test_type) ==
    {score \in scores : Upper(score.test_type) = Upper(test_type)}

\* lines 175-179
ValidScores(matching_scores, t) ==
    {score \in matching_scores : IsValidScore(score, t)}

\* line 189: max(valid_scores, key=lambda x: float(x.score))
BestScore(valid_scores) ==
    CHOOSE score \in valid_scores :
        \A other \in valid_scores :
            ParseFloat(other.score).val <= ParseFloat(score.score).val

\* lines 181-196, required being the required score in hundredths
CompareValidScores(required, valid_scores) ==
    IF valid_scores = {} THEN Verdict(FALSE, "all_expired")
    ELSE IF \E score \in valid_scores : ~ParseFloat(score.score).ok
    THEN Raised("ValueError")
    ELSE Verdict(ParseFloat(BestScore(valid_scores).score).val >= required,
                 "compared")

\* lines 155-196, required being what float() made of the requirement's value
CompareScores(requirement, required, matching_scores, t) ==
    IF ~required.ok THEN Raised(FloatError(requirement.requirement_value))
    ELSE IF matching_scores = {} THEN Verdict(FALSE, "no_score_found")
    ELSE CompareValidScores(required.val, ValidScores(matching_scores, t))

\* _check_test_score_requirement
CheckTestScoreRequirement(requirement, scores, t) ==
    CompareScores(requirement, ParseFloat(requirement.requirement_value),
                  MatchingScores(scores, RequiredTestType(requirement)), t)

\* normalized, with float() of grade_point and of max_grade_point (4.0 when
\* it is empty): skip = the ValueError/TypeError the loop swallows, raised =
\* the ZeroDivisionError it does not; n/d is grade_point / max_grade_point
Normalized(gpa, max_gpa) ==
    IF ~gpa.ok \/ ~max_gpa.ok
    THEN [skip |-> TRUE, raised |-> FALSE, n |-> 0, d |-> 1]
    ELSE IF max_gpa.val = 0
    THEN [skip |-> FALSE, raised |-> TRUE, n |-> 0, d |-> 1]
    ELSE [skip |-> FALSE, raised |-> FALSE, n |-> gpa.val, d |-> max_gpa.val]

\* the try block of the loop of _check_gpa_requirement for one qualification
GpaOf(qual) ==
    Normalized(ParseFloat(qual.grade_point),
               IF Truthy(qual.max_grade_point)
               THEN ParseFloat(qual.max_grade_point)
               ELSE [ok |-> TRUE, val |-> 400])

\* lines 206-208
CompletedWithGpa(quals) ==
    {i \in 1..Len(quals) : quals[i].is_completed /\ Truthy(quals[i].grade_point)}

\* the qualifications of g that the loop neither skips nor fails at
Usable(g) == {i \in DOMAIN g : ~g[i].skip /\ ~g[i].raised}

\* the qualification with the highest normalized GPA
BestGpa(g, usable) ==
    CHOOSE i \in usable : \A j \in usable : g[j].n * g[i].d <= g[i].n * g[j].d

\* highest_gpa >= required_gpa: the highest normalized GPA is 4.0 * n / d,
\* and 0.0 when the loop kept none
HighestGpaReaches(g, usable, required) ==
    IF usable = {} THEN 0 >= required
    ELSE \E i \in {BestGpa(g, usable)} : 4 * g[i].n * 100 >= required * g[i].d

\* lines 203-240, g being the normalized GPA of each completed qualification
CompareGpa(requirement, required, g) ==
    IF ~required.ok THEN Raised(FloatError(requirement.requirement_value))
    ELSE IF DOMAIN g = {} THEN Verdict(FALSE, "no_completed_gpa")
    ELSE IF \E i \in DOMAIN g : g[i].raised THEN Raised("ZeroDivisionError")
    ELSE Verdict(HighestGpaReaches(g, Usable(g), required.val), "compared")

\* _check_gpa_requirement
CheckGpaRequirement(requirement, quals) ==
    CompareGpa(requirement, ParseFloat(requirement.requirement_value),
               [i \in CompletedWithGpa(quals) |-> GpaOf(quals[i])])

\* a hierarchy in which a certificate ranks below a diploma
DegreeRankCertificateLower(level) ==
    IF level = S_high_school THEN 1
    ELSE IF level = S_certificate THEN 2
    ELSE IF level = S_diploma THEN 3
    ELSE IF level = S_bachelor THEN 4
    ELSE IF level = S_master THEN 5
    ELSE IF level = S_phd THEN 6
    ELSE 0

\* degree_hierarchy.get(level, 0)
DegreeRank(level) ==
    IF level = S_high_school THEN 1
    ELSE IF level = S_diploma THEN 2
    ELSE IF level = S_certificate THEN 2
    ELSE IF level = S_bachelor THEN 3
    ELSE IF level = S_master THEN 4
    ELSE IF level = S_phd THEN 5
    ELSE 0

\* lines 262-264
Completed(quals) == {i \in 1..Len(quals) : quals[i].is_completed}

\* lines 273-281: the highest rank among the completed qualifications
HighestRank(quals, completed) ==
    IF completed = {} THEN 0
    ELSE DegreeRank(quals[CHOOSE i \in completed : \A j \in completed :
                        DegreeRank(quals[j].qualification_type)
                            <= DegreeRank(quals[i].qualification_type)
                    ].qualification_type)

\* lines 247-288
CompareDegree(requirement, quals, completed) ==
    IF requirement.requirement_value = None THEN Raised("AttributeError")
    ELSE IF completed = {} THEN Verdict(FALSE, "no_completed")
    ELSE Verdict(HighestRank(quals, completed)
                    >= DegreeRank(Lower(requirement.requirement_value)),
                 "compared")

\* _check_degree_requirement
CheckDegreeRequirement(requirement, quals) ==
    CompareDegree(requirement, quals, Completed(quals))

\* lines 298-307: what the loop makes of the result of its call
FirstMet(test_result) ==
    IF test_result.raised THEN test_result
    ELSE IF test_result.is_met THEN test_result
    ELSE Verdict(FALSE, "no_valid_language_score")

\* _check_language_requirement: each of the four rounds of its loop makes the
\* same call, whose arguments do not mention the round's test
CheckLanguageRequirement(requirement, scores, t) ==
    FirstMet(CheckTestScoreRequirement(requirement, scores, t))

\* lines 139-146: the update of the result by the requirement's type
TypeUpdate(requirement, scores, quals, t) ==
    IF requirement.requirement_type = S_test_score
    THEN CheckTestScoreRequirement(requirement, scores, t)
    ELSE IF requirement.requirement_type = S_gpa
    THEN CheckGpaRequirement(requirement, quals)
    ELSE IF requirement.requirement_type = S_degree_level
    THEN CheckDegreeRequirement(requirement, quals)
    ELSE IF requirement.requirement_type = S_language
    THEN CheckLanguageRequirement(requirement, scores, t)
    ELSE Verdict(FALSE, "")

\* lines 126-148: the result dict after result.update(update)
Updated(requirement, update) ==
    [requirement_id |-> requirement.id,
     is_mandatory |-> requirement.is_mandatory,
     is_met |-> update.is_met,
     details |-> update.details,
     raised |-> update.raised,
     exc |-> update.exc]

\* _check_single_requirement
CheckSingleRequirement(requirement, scores, quals, t) ==
    Updated(requirement, TypeUpdate(requirement, scores, quals, t))

----------------------------------------------------------------------------
(* The catalog, the user and the status store *)

Users == {1}
UserIds == {1, 2}
Programs == 1..NumPrograms
ProgramIds == 1..(NumPrograms + 1)

\* a ProgramRequirement row before it is given its program and id
Req(type, value, test_type, mandatory, description) ==
    [requirement_type |-> type, requirement_value |-> value,
     test_type |-> test_type, is_mandatory |-> mandatory,
     description |-> description]

\* the requirement lists a program may carry
ReqProfiles ==
    << <<>>,
       << Req(S_test_score, S_6_5, S_ielts, TRUE, None),
          Req(S_gpa, S_3_5, None, FALSE, None) >>,
       << Req(S_language, S_6_5, None, TRUE, S_ielts_desc),
          Req(S_degree_level, S_honours, None, FALSE, None),
          Req(S_essay, None, None, FALSE, None) >>,
       << Req(S_test_score, S_abc, S_IELTS, TRUE, None),
          Req(S_degree_level, S_Bachelor, None, TRUE, None) >>,
       << Req(S_gpa, None, None, FALSE, None),
          Req(S_language, S_abc, S_IELTS, TRUE, None) >>,
       << Req(S_degree_level, None, None, TRUE, None) >> >>

\* program_requirements rows of program p
WithIds(p, profile) ==
    [i \in 1..Len(profile) |->
        [id |-> 10 * p + i,
         requirement_type |-> profile[i].requirement_type,
         requirement_value |-> profile[i].requirement_value,
         test_type |-> profile[i].test_type,
         is_mandatory |-> profile[i].is_mandatory,
         description |-> profile[i].description]]

\* the catalogs: in catalog k, program p carries profile k + p - 1 of the
\* list, taken cyclically
CatalogIds == 1..Len(ReqProfiles)

\* table program_requirements under catalog k: program id -> its rows
Requirements(k) ==
    [p \in Programs |->
        WithIds(p, ReqProfiles[((k + p - 2) % Len(ReqProfiles)) + 1])]

\* the test scores a user may add
ScoreChoices ==
    { [test_type |-> S_IELTS, score |-> S_7_0, expiry_date |-> <<1>>],
      [test_type |-> S_IELTS, score |-> S_6_0, expiry_date |-> <<>>] }

\* the qualification histories of the user
QualChoices ==
    { <<>>,
      << [qualification_type |-> S_bachelor, is_completed |-> TRUE,
          grade_point |-> S_3_8, max_grade_point |-> S_4_0],
         [qualification_type |-> S_master, is_completed |-> FALSE,
          grade_point |-> None, max_grade_point |-> None] >> }

----------------------------------------------------------------------------
(* Qualification checker *)

\* how many results of the list are met
RECURSIVE CountMet(_)
CountMet(results) ==
    IF results = <<>> THEN 0
    ELSE (IF results[1].is_met THEN 1 ELSE 0) + CountMet(Tail(results))

IsUnmet(result) == ~result.is_met

\* the score counting one requirement too many
QualificationScoreOffByOne(met_requirements, total_requirements) ==
    IF total_requirements > 0
    THEN [n |-> (met_requirements + 1) * 100, d |-> total_requirements]
    ELSE [n |-> 0, d |-> 1]

\* the score of a program without requirements taken as full
QualificationScoreVacuous(met_requirements, total_requirements) ==
    IF total_requirements > 0
    THEN [n |-> met_requirements * 100, d |-> total_requirements]
    ELSE [n |-> 100, d |-> 1]

\* qualification_score as the exact fraction n/d
QualificationScore(met_requirements, total_requirements) ==
    IF total_requirements > 0
    THEN [n |-> met_requirements * 100, d |-> total_requirements]
    ELSE [n |-> 0, d |-> 1]

\* is_qualified with the threshold at half the requirements
IsQualifiedLenient(qualification_score, qualification_results) ==
    LET mandatory_unmet ==
            \E i \in 1..Len(qualification_results) :
                /\ qualification_results[i].is_mandatory
                /\ ~qualification_results[i].is_met
    IN  IF mandatory_unmet THEN FALSE
        ELSE qualification_score.n >= 50 * qualification_score.d

\* is_qualified, with the mandatory override
IsQualified(qualification_score, qualification_results) ==
    LET mandatory_unmet ==
            \E i \in 1..Len(qualification_results) :
                /\ qualification_results[i].is_mandatory
                /\ ~qualification_results[i].is_met
    IN  IF mandatory_unmet THEN FALSE
        ELSE qualification_score.n >= 100 * qualification_score.d

\* Numeric(5, 2): the score as stored, in hundredths, rounded half up
Numeric52(score) == (2 * 100 * score.n + score.d) \div (2 * score.d)

\* the first row of the table for the pair, 0 when there is none
ExistingStatus(table, user_id, program_id) ==
    LET hits == {i \in 1..Len(table) :
                    table[i].user_id = user_id /\ table[i].program_id = program_id}
    IN  IF hits = {} THEN 0 ELSE CHOOSE i \in hits : \A j \in hits : i <= j

\* the update appending the missing requirements to those of the row
UpdatedStatusAppending(table, existing, is_qualified, qualification_score, missing_requirements, checked_at) ==
    [table EXCEPT ![existing] =
        [@ EXCEPT !.is_qualified = is_qualified,
                  !.qualification_score = Numeric52(qualification_score),
                  !.missing_requirements = @ \o missing_requirements,
                  !.last_checked = checked_at]]

\* the UPDATE of _save_qualification_status on row `existing`
UpdatedStatus(table, existing, is_qualified, qualification_score, missing_requirements, checked_at) ==
    [table EXCEPT ![existing] =
        [@ EXCEPT !.is_qualified = is_qualified,
                  !.qualification_score = Numeric52(qualification_score),
                  !.missing_requirements = missing_requirements,
                  !.last_checked = checked_at]]

\* the INSERT of _save_qualification_status
InsertedStatus(table, user_id, program_id, is_qualified, qualification_score, missing_requirements, checked_at) ==
    Append(table,
        [id |-> Len(table) + 1, user_id |-> user_id, program_id |-> program_id,
         is_qualified |-> is_qualified,
         qualification_score |-> Numeric52(qualification_score),
         missing_requirements |-> missing_requirements,
         last_checked |-> checked_at])

\* the save that never looks for the existing row
SaveAlwaysInserts(table, user_id, program_id, is_qualified, qualification_score, missing_requirements, t, commit_ok) ==
    IF commit_ok
    THEN [table |-> InsertedStatus(table, user_id, program_id, is_qualified,
                        qualification_score, missing_requirements, t),
          raised |-> FALSE]
    ELSE [table |-> table, raised |-> TRUE]

\* a save whose failed commit leaves what it wrote in the table
SaveWithoutRollback(table, user_id, program_id, is_qualified, qualification_score, missing_requirements, t, commit_ok) ==
    [table |->
        IF ExistingStatus(table, user_id, program_id) # 0
        THEN UpdatedStatus(table, ExistingStatus(table, user_id, program_id),
                           is_qualified, qualification_score,
                           missing_requirements, t)
        ELSE InsertedStatus(table, user_id, program_id, is_qualified,
                            qualification_score, missing_requirements, t),
     raised |-> ~commit_ok]

\* _save_qualification_status: the table after it, and whether it raised
\* (commit_ok = FALSE: the commit fails and the transaction is rolled back)
SaveQualificationStatus(table, user_id, program_id, is_qualified, qualification_score, missing_requirements, t, commit_ok) ==
    LET existing == ExistingStatus(table, user_id, program_id)
        written ==
            IF existing # 0
            THEN UpdatedStatus(table, existing, is_qualified, qualification_score,
                               missing_requirements, t)
            ELSE InsertedStatus(table, user_id, program_id, is_qualified,
                                qualification_score, missing_requirements, t)
    IN  IF commit_ok THEN [table |-> written, raised |-> FALSE]
        ELSE [table |-> table, raised |-> TRUE]

\* the shape of a call record; outcome is "none", "error" (the error dict),
\* "raised" or "ok"; test_scores is the list the call read; http_status is
\* the response of the route that made the call, 0 when no route did; repeats
\* is history: the call before it was a successful check of the same pair
\* that read the same test scores
Call(user_id, program_id, outcome, exc, is_qualified, qualification_score, met, total, missing, detailed, scores) ==
    [user_id |-> user_id, program_id |-> program_id, outcome |-> outcome,
     exc |-> exc, is_qualified |-> is_qualified,
     qualification_score |-> qualification_score,
     requirements_met |-> met, total_requirements |-> total,
     missing_requirements |-> missing, detailed_results |-> detailed,
     test_scores |-> scores, http_status |-> 0, repeats |-> FALSE]

NoCall == Call(0, 0, "none", "", FALSE, [n |-> 0, d |-> 1], 0, 0, <<>>, <<>>, {})

\* the loop of check_user_qualification over the requirements
RECURSIVE CheckEach(_, _, _, _)
CheckEach(requirement_list, scores, quals, t) ==
    IF requirement_list = <<>> THEN <<>>
    ELSE <<CheckSingleRequirement(requirement_list[1], scores, quals, t)>>
            \o CheckEach(Tail(requirement_list), scores, quals, t)

\* the exception of the first requirement whose evaluation raised
FirstRaised(results) ==
    results[CHOOSE i \in 1..Len(results) :
                results[i].raised /\ \A j \in 1..(i - 1) : ~results[j].raised].exc

\* lines 70-88 and the dict of lines 101-113
Returned(user_id, program_id, qualification_results, met_requirements, scores) ==
    Call(user_id, program_id, "ok", "",
         IsQualified(QualificationScore(met_requirements,
                                        Len(qualification_results)),
                     qualification_results),
         QualificationScore(met_requirements, Len(qualification_results)),
         met_requirements, Len(qualification_results),
         SelectSeq(qualification_results, IsUnmet), qualification_results, scores)

\* lines 54-113 once the loop has its results, a raising evaluator ending
\* the call
Checked(user_id, program_id, qualification_results, scores) ==
    IF \E i \in 1..Len(qualification_results) : qualification_results[i].raised
    THEN Call(user_id, program_id, "raised", FirstRaised(qualification_results),
              FALSE, [n |-> 0, d |-> 1], 0, 0, <<>>, <<>>, scores)
    ELSE Returned(user_id, program_id, qualification_results,
                  CountMet(qualification_results), scores)

\* lines 26-88 of check_user_qualification, up to the save: what it computed
Evaluate(user_id, program_id, reqs, scores, quals, t) ==
    IF user_id \notin Users \/ program_id \notin Programs
    THEN Call(user_id, program_id, "error", "", FALSE, [n |-> 0, d |-> 1],
              0, 0, <<>>, <<>>, {})
    ELSE Checked(user_id, program_id,
                 CheckEach(reqs[program_id], scores, quals, t), scores)

\* Evaluate over every input the model gives it, computed once; @@ makes the
\* table an explicit function
EvaluateTable ==
    [user_id \in UserIds, program_id \in ProgramIds, k \in CatalogIds,
     scores \in SUBSET ScoreChoices, quals \in QualChoices, t \in 0..MaxNow |->
        Evaluate(user_id, program_id, Requirements(k), scores, quals, t)] @@ <<>>

\* check_user_qualification once lines 26-88 computed `computed`: the call
\* record and the table after the call
SaveAndReturn(table, computed, t, commit_ok) ==
    LET saved == SaveQualificationStatus(table, computed.user_id,
                    computed.program_id, computed.is_qualified,
                    computed.qualification_score,
                    computed.missing_requirements, t, commit_ok)
    IN  IF computed.outcome # "ok" THEN [call |-> computed, table |-> table]
        ELSE IF saved.raised
        THEN [call |-> Call(computed.user_id, computed.program_id, "raised",
                            "SQLAlchemyError", FALSE, [n |-> 0, d |-> 1], 0, 0,
                            <<>>, <<>>, computed.test_scores),
              table |-> saved.table]
        ELSE [call |-> computed, table |-> saved.table]

\* check_user_qualification: the call record and the table after the call
CheckUserQualification(table, user_id, program_id, reqs, scores, quals, t, commit_ok) ==
    SaveAndReturn(table, Evaluate(user_id, program_id, reqs, scores, quals, t),
                  t, commit_ok)

----------------------------------------------------------------------------
(* Routes and other operations *)

\* the exception the try block of the route check_user_qualification ends
\* with, "" when it returns the result
RouteBodyException(call) ==
    IF call.outcome = "error" THEN "HTTPException404"
    ELSE IF call.outcome = "raised" THEN call.exc
    ELSE ""

\* the handlers of the route: ValueError first, then Exception, which every
\* other exception class is, HTTPException included
RouteStatus(exception) ==
    IF exception = "" THEN 200
    ELSE IF exception = "ValueError" THEN 400
    ELSE 500

\* Python truthiness of an optional list, number or str in a request:
\* absent (None) and empty or zero are falsy
Given(list) == list.given /\ list.value # <<>>
GivenNumber(number) == number.given /\ number.value # 0
GivenText(text) == text \notin {"<None>", ""}
NoList == [given |-> FALSE, value |-> <<>>]

\* list[:n]
Take(list, n) == SubSeq(list, 1, IF Len(list) < n THEN Len(list) ELSE n)

\* the query parameters of a request; limit is between 1 and 50
Request(preferred_countries, preferred_fields, degree_level, max_tuition_fee, language_preference, limit) ==
    [preferred_countries |-> preferred_countries,
     preferred_fields |-> preferred_fields, degree_level |-> degree_level,
     max_tuition_fee |-> max_tuition_fee,
     language_preference |-> language_preference, limit |-> limit]

NoNumber == [given |-> FALSE, value |-> 0]

\* the request record: pc is "idle", "inputs" (the candidate lists are there
\* and the combiner has not run) or "done"; time is the tick of the request
\* and checked the programs its refresh checked
Recommendation(pc, user_id, http_status, t, request, checked, interest_recommendations, qualification_recommendations, test_score_recommendations, combined) ==
    [pc |-> pc, user_id |-> user_id, http_status |-> http_status, time |-> t,
     request |-> request, checked |-> checked,
     interest_recommendations |-> interest_recommendations,
     qualification_recommendations |-> qualification_recommendations,
     test_score_recommendations |-> test_score_recommendations,
     recommendations |-> Take(combined, request.limit),
     total_recommendations |-> Len(Take(combined, request.limit))]

NoRec ==
    Recommendation("idle", 0, 0, 0,
        Request(NoList, NoList, None, NoNumber, "<None>", 10),
        <<>>, <<>>, <<>>, <<>>, <<>>)

\* a call of one of the helper methods of the services: its arguments and,
\* once it has returned, its value
HelperCall(pc, method, args, value) ==
    [pc |-> pc, method |-> method, args |-> args, value |-> value]

NoHelperCall == HelperCall("idle", "", <<>>, [n |-> 0, d |-> 1])

NoScan == [pc |-> "idle", user_id |-> 0, programs |-> <<>>, i |-> 0,
           results |-> <<>>, failed |-> <<>>, http_status |-> 0]

Sessions == 1..NumSessions

\* a request that has not started: pc is "idle", "read" (the request has
\* queried the existing status row and holds it) or "done"
IdleSession == [pc |-> "idle", call |-> NoCall, existing |-> 0]
IdleSessions == [s \in Sessions |-> IdleSession]

\* whether call `cur` repeats the call `prev` made before it
Repeats(prev, cur) ==
    /\ prev.outcome = "ok"
    /\ cur.outcome = "ok"
    /\ prev.user_id = cur.user_id
    /\ prev.program_id = cur.program_id
    /\ prev.test_scores = cur.test_scores

\* POST /users/{user_id}/qualifications/check/{program_id}; the commit of the
\* save may fail
CheckRoute(user_id, program_id) ==
    LET computed == EvaluateTable[user_id, program_id, catalog, test_scores,
                             qualifications, now]
    IN  \E commit_ok \in BOOLEAN :
        LET done == SaveAndReturn(status, computed, now, commit_ok)
        IN  /\ status' = done.table
            /\ last_call' =
                    [done.call EXCEPT
                        !.http_status = RouteStatus(RouteBodyException(done.call)),
                        !.repeats = Repeats(last_call, done.call)]
            /\ UNCHANGED <<now, catalog, active, test_scores,
                           qualifications, scan, sessions,
                   interests, login, rec, helper>>

\* the clock advances; the response of the latest recommendation request
\* has been sent by then
Tick ==
    /\ now < MaxNow
    /\ now' = now + 1
    /\ rec' = NoRec
    /\ UNCHANGED <<catalog, active, test_scores, qualifications, status,
                   last_call, scan, sessions, interests, login, helper>>

\* the active programs in primary-key order, as the query of line 418 lists them
RECURSIVE ActivePrograms(_, _)
ActivePrograms(is_active, p) ==
    IF p > NumPrograms THEN <<>>
    ELSE (IF is_active[p] THEN <<p>> ELSE <<>>) \o ActivePrograms(is_active, p + 1)

\* POST /users/{user_id}/qualifications/check-all enters
\* check_user_against_all_programs: lines 418-423
ScanStart(user_id) ==
    /\ scan.pc # "running"
    /\ scan' = [pc |-> "running", user_id |-> user_id,
                programs |-> ActivePrograms(active, 1), i |-> 1,
                results |-> <<>>, failed |-> <<>>, http_status |-> 0]
    /\ UNCHANGED <<now, catalog, active, test_scores, qualifications, status,
                   last_call, sessions,
                   interests, login, rec, helper>>

\* the round whose except branch ends the scan instead of going on
ScanStepAborting ==
    /\ scan.pc = "running"
    /\ scan.i <= Len(scan.programs)
    /\ LET program_id == scan.programs[scan.i]
           computed == EvaluateTable[scan.user_id, program_id, catalog,
                                test_scores, qualifications, now]
       IN  \E commit_ok \in BOOLEAN :
           LET done == SaveAndReturn(status, computed, now, commit_ok)
           IN  /\ status' = done.table
               /\ last_call' = [done.call EXCEPT
                                    !.repeats = Repeats(last_call, done.call)]
               /\ scan' =
                    IF done.call.outcome = "raised"
                    THEN [scan EXCEPT !.pc = "done", !.http_status = 500,
                            !.failed = Append(@, [program_id |-> program_id,
                                                  exc |-> done.call.exc])]
                    ELSE [scan EXCEPT !.i = @ + 1,
                            !.results = Append(@, done.call)]
    /\ UNCHANGED <<now, catalog, active, test_scores, qualifications, sessions,
                   interests, login, rec, helper>>

\* one round of the loop of check_user_against_all_programs, lines 425-434;
\* failed is what the except branch logs
ScanStep ==
    /\ scan.pc = "running"
    /\ scan.i <= Len(scan.programs)
    /\ LET program_id == scan.programs[scan.i]
           computed == EvaluateTable[scan.user_id, program_id, catalog,
                                test_scores, qualifications, now]
       IN  \E commit_ok \in BOOLEAN :
           LET done == SaveAndReturn(status, computed, now, commit_ok)
           IN  /\ status' = done.table
               /\ last_call' = [done.call EXCEPT
                                    !.repeats = Repeats(last_call, done.call)]
               /\ scan' =
                    IF done.call.outcome = "raised"
                    THEN [scan EXCEPT !.i = @ + 1,
                            !.failed = Append(@, [program_id |-> program_id,
                                                  exc |-> done.call.exc])]
                    ELSE [scan EXCEPT !.i = @ + 1,
                            !.results = Append(@, done.call)]
    /\ UNCHANGED <<now, catalog, active, test_scores, qualifications, sessions,
                   interests, login, rec, helper>>

\* lines 436-437 and the route's return
ScanReturn ==
    /\ scan.pc = "running"
    /\ scan.i > Len(scan.programs)
    /\ scan' = [scan EXCEPT !.pc = "done", !.http_status = 200]
    /\ UNCHANGED <<now, catalog, active, test_scores, qualifications, status,
                   last_call, sessions,
                   interests, login, rec, helper>>

\* a request that has not started yet, in its own Session, runs
\* check_user_qualification down to the
\* query of the existing row, lines 27-343; the reads of one transaction see
\* one snapshot of the database
SessionBegin(s, user_id, program_id) ==
    LET computed == EvaluateTable[user_id, program_id, catalog,
                             test_scores, qualifications, now]
    IN  /\ sessions[s].pc = "idle"
        /\ sessions' = [sessions EXCEPT ![s] =
                IF computed.outcome = "ok"
                THEN [pc |-> "read", call |-> computed,
                      existing |-> ExistingStatus(status, user_id, program_id)]
                ELSE [pc |-> "done", call |-> computed, existing |-> 0]]
        /\ UNCHANGED <<now, catalog, active, test_scores, qualifications, status,
                       last_call, scan,
                   interests, login, rec, helper>>

\* the request goes on with lines 345-363: it updates the row it read, or
\* adds a row when it read none, and commits; the table has no unique key on
\* (user_id, program_id)
SessionCommit(s) ==
    /\ sessions[s].pc = "read"
    /\ \E commit_ok \in BOOLEAN :
        LET mine == sessions[s]
            written ==
                IF mine.existing # 0
                THEN UpdatedStatus(status, mine.existing, mine.call.is_qualified,
                        mine.call.qualification_score,
                        mine.call.missing_requirements, now)
                ELSE InsertedStatus(status, mine.call.user_id,
                        mine.call.program_id, mine.call.is_qualified,
                        mine.call.qualification_score,
                        mine.call.missing_requirements, now)
        IN  /\ status' = IF commit_ok THEN written ELSE status
            /\ sessions' = [sessions EXCEPT ![s] =
                    [mine EXCEPT !.pc = "done",
                        !.call = IF commit_ok THEN @
                                 ELSE [@ EXCEPT !.outcome = "raised",
                                                !.exc = "SQLAlchemyError"]]]
    /\ UNCHANGED <<now, catalog, active, test_scores, qualifications,
                   last_call, scan,
                   interests, login, rec, helper>>

----------------------------------------------------------------------------
(* Recommendations: the refresh of the statuses and the three generators;   *)
(* a score is the fraction n / d in lowest terms                            *)

RECURSIVE Gcd(_, _)
Gcd(a, b) == IF b = 0 THEN a ELSE Gcd(b, a % b)

\* the float n / d
Ratio(n, d) == [n |-> n \div Gcd(n, d), d |-> d \div Gcd(n, d)]

Plus(a, b) == Ratio(a.n * b.d + b.n * a.d, a.d * b.d)
Times(a, b) == Ratio(a.n * b.n, a.d * b.d)
Less(a, b) == a.n * b.d < b.n * a.d

\* the UserInterest rows the user may have
InterestChoices ==
    { <<>>, << [field_of_study |-> S_cs, interest_level |-> "high"] >> }

\* the row of program p joined with its university and region; tuition_fee
\* 0 is the NULL (or zero) fee the generators pass on as None
ProgramRow(p) ==
    [id |-> p,
     field_of_study |-> IF p % 2 = 1 THEN S_cs ELSE S_law,
     degree_level |-> IF p % 2 = 1 THEN S_master ELSE S_bachelor,
     language |-> IF p % 2 = 1 THEN "English" ELSE "German",
     tuition_fee |-> IF p = 1 THEN 2000 ELSE IF p = 2 THEN 0 ELSE 500,
     country |-> IF p = 1 THEN "Germany" ELSE "USA"]

\* ttl_minutes of line 102 and the limit of line 117
TtlMinutes == 60
RefreshLimit == 50

\* the refresh that takes every row for stale
StaleAlways(table, existing, t) == TRUE

\* line 123: no row, or a row whose last_checked is before the cutoff
\* (utcnow() less the TTL); a tick of the clock is a day of 1440 minutes
Stale(table, existing, t) ==
    \/ existing = 0
    \/ table[existing].last_checked * 1440 < t * 1440 - TtlMinutes

\* existing_statuses.get(program_id) of lines 108-111 and 121: the dict keeps
\* the last row of a pair; 0 when there is none
LatestStatus(table, user_id, program_id) ==
    LET hits == {i \in 1..Len(table) :
                    table[i].user_id = user_id /\ table[i].program_id = program_id}
    IN  IF hits = {} THEN 0 ELSE CHOOSE i \in hits : \A j \in hits : i >= j

\* the programs the refresh visits, lines 116-118
RefreshPrograms(is_active) ==
    SubSeq(ActivePrograms(is_active, 1), 1,
           IF Len(ActivePrograms(is_active, 1)) < RefreshLimit
           THEN Len(ActivePrograms(is_active, 1)) ELSE RefreshLimit)

\* one round of the loop of lines 120-133: the check of a missing or stale
\* pair, whose failure is logged and nothing more; checked lists the
\* programs the refresh called check_user_qualification for
RefreshOne(acc, user_id, program_id, k, scores, quals, t, commit_ok) ==
    IF Stale(acc.table, LatestStatus(acc.table, user_id, program_id), t)
    THEN [table |-> SaveAndReturn(acc.table,
                        EvaluateTable[user_id, program_id, k, scores, quals, t],
                        t, commit_ok[program_id]).table,
          checked |-> Append(acc.checked, program_id)]
    ELSE acc

\* _refresh_user_qualification_statuses from program i of the list on
RECURSIVE RefreshUserQualificationStatuses(_, _, _, _, _, _, _, _, _)
RefreshUserQualificationStatuses(acc, user_id, programs, i, k, scores, quals, t, commit_ok) ==
    IF i > Len(programs) THEN acc
    ELSE RefreshUserQualificationStatuses(
            RefreshOne(acc, user_id, programs[i], k, scores, quals, t, commit_ok),
            user_id, programs, i + 1, k, scores, quals, t, commit_ok)

\* a candidate dict of a generator, with the keys the combiner reads
Candidate(program, match_score, recommendation_type) ==
    [program_id |-> program.id, country |-> program.country,
     tuition_fee |-> program.tuition_fee, language |-> program.language,
     match_score |-> match_score, recommendation_type |-> recommendation_type]

\* a sort that puts the later of two equal elements first
RECURSIVE SortedDescTiesReversed(_, _)
SortedDescTiesReversed(recs, key) ==
    IF recs = <<>> THEN <<>>
    ELSE LET rest == SortedDescTiesReversed(SubSeq(recs, 1, Len(recs) - 1), key)
             last == recs[Len(recs)]
             pos == Cardinality({i \in 1..Len(rest) :
                                    Less(last[key], rest[i][key])})
         IN  SubSeq(rest, 1, pos) \o <<last>> \o SubSeq(rest, pos + 1, Len(rest))

\* sorted(recs, key=lambda x: x[key], reverse=True): the sort is stable
RECURSIVE SortedDesc(_, _)
SortedDesc(recs, key) ==
    IF recs = <<>> THEN <<>>
    ELSE LET rest == SortedDesc(SubSeq(recs, 1, Len(recs) - 1), key)
             last == recs[Len(recs)]
             pos == Cardinality({i \in 1..Len(rest) :
                                    ~Less(rest[i][key], last[key])})
         IN  SubSeq(rest, 1, pos) \o <<last>> \o SubSeq(rest, pos + 1, Len(rest))

\* 90, 70 or 50 (60, 40 or 25) by the level of the interest
LevelScore(interest, high, medium, low) ==
    IF interest.interest_level = "high" THEN high
    ELSE IF interest.interest_level = "medium" THEN medium
    ELSE low

\* the first element of the list with the property, 0 when there is none
First(hits) == IF hits = {} THEN 0 ELSE CHOOSE i \in hits : \A j \in hits : i <= j

\* one field string contains the other, whatever the case of letters
Related(a, b) == Contains(Lower(a), Lower(b)) \/ Contains(Lower(b), Lower(a))

\* lines 708-733: the direct match, else the partial match
InterestScore(user_interests, field, direct, partial) ==
    IF direct # 0 THEN LevelScore(user_interests[direct], 90, 70, 50)
    ELSE IF partial # 0 THEN LevelScore(user_interests[partial], 60, 40, 25)
    ELSE 0

\* lines 735-746: the first preferred field that equals or is related to
\* the field of the program decides
PreferredScore(preferred_fields, field, hit) ==
    IF ~Given(preferred_fields) \/ hit = 0 THEN 0
    ELSE IF Lower(preferred_fields.value[hit]) = Lower(field) THEN 20
    ELSE 10

\* _calculate_interest_match_score
CalculateInterestMatchScore(user_interests, field, preferred_fields) ==
    LET score ==
            InterestScore(user_interests, field,
                First({i \in 1..Len(user_interests) :
                    Lower(user_interests[i].field_of_study) = Lower(field)}),
                First({i \in 1..Len(user_interests) :
                    Related(user_interests[i].field_of_study, field)}))
            + PreferredScore(preferred_fields, field,
                First({i \in 1..Len(preferred_fields.value) :
                    Related(preferred_fields.value[i], field)}))
    IN  Ratio(IF score < 100 THEN score ELSE 100, 1)

\* the fields of lines 166-168
InterestFields(user_interests, preferred_fields) ==
    {user_interests[i].field_of_study : i \in 1..Len(user_interests)}
        \cup (IF Given(preferred_fields)
              THEN {preferred_fields.value[i] :
                        i \in 1..Len(preferred_fields.value)}
              ELSE {})

\* the filter of lines 173-174 and 292-293
OfDegreeLevel(program, degree_level) ==
    Truthy(degree_level) => program.degree_level = degree_level

\* _get_interest_based_recommendations
InterestBasedRecommendations(user_interests, is_active, preferred_fields, degree_level, limit) ==
    IF user_interests = <<>> THEN <<>>
    ELSE LET programs ==
                Take(ActivePrograms(
                        [p \in Programs |->
                            /\ ProgramRow(p).field_of_study \in
                                    InterestFields(user_interests, preferred_fields)
                            /\ OfDegreeLevel(ProgramRow(p), degree_level)
                            /\ is_active[p]], 1), limit)
         IN  SortedDesc([i \in 1..Len(programs) |->
                            Candidate(ProgramRow(programs[i]),
                                CalculateInterestMatchScore(user_interests,
                                    ProgramRow(programs[i]).field_of_study,
                                    preferred_fields),
                                "interest_based")],
                        "match_score")

\* the rows of the query of lines 222-235 before its ORDER BY: the query
\* joins the program and does not filter on is_active
QualifyingRows(table, user_id) ==
    SelectSeq(table,
        LAMBDA row : /\ row.user_id = user_id
                     /\ (row.is_qualified \/ row.qualification_score >= 7500))

\* the candidates of lines 238-262
QualificationCandidates(rows) ==
    [i \in 1..Len(rows) |->
        Candidate(ProgramRow(rows[i].program_id),
                  Ratio(rows[i].qualification_score, 100),
                  "qualification_based")]

\* _get_qualification_based_recommendations; rows of equal score are taken
\* in primary-key order
QualificationBasedRecommendations(table, user_id, limit) ==
    Take(SortedDesc(QualificationCandidates(QualifyingRows(table, user_id)),
                    "match_score"), limit)

\* _extract_test_type_from_description
DescriptionVocabulary == <<S_IELTS, S_TOEFL, S_GRE, S_GMAT, S_SAT, S_ACT, S_PTE>>

DescriptionTestTypeOf(description) ==
    IF ~Truthy(description) THEN None
    ELSE IF First({i \in 1..Len(DescriptionVocabulary) :
                    Contains(DescriptionVocabulary[i], Upper(description))}) = 0
    THEN None
    ELSE DescriptionVocabulary[
            First({i \in 1..Len(DescriptionVocabulary) :
                    Contains(DescriptionVocabulary[i], Upper(description))})]

\* line 356: req.test_type or the type its description names
MatchTestType(req) ==
    IF Truthy(req.test_type) THEN req.test_type
    ELSE DescriptionTestTypeOf(req.description)

\* _get_best_user_score, in hundredths: 0 is the None of no score of the
\* type or of a score that is no number (and the 0.0 line 363 takes for
\* None); the scores are taken whatever their expiry_date
BestUserScore(matching_scores) ==
    IF matching_scores = {} THEN 0
    ELSE IF \E score \in matching_scores : ~ParseFloat(score.score).ok THEN 0
    ELSE ParseFloat((CHOOSE score \in matching_scores :
                        \A other \in matching_scores :
                            ParseFloat(other.score).val
                                <= ParseFloat(score.score).val).score).val

\* lines 364-369: what a requirement adds to total_score, given the best
\* score of the user and the required score, both in hundredths
Contribution(user_score, required_score) ==
    IF user_score >= required_score THEN Ratio(100, 1)
    ELSE IF 100 * user_score < 95 * required_score
    THEN Ratio(100 * user_score, required_score)
    ELSE Ratio(95, 1)

\* lines 355-370 for one requirement: whether it matched and what it adds;
\* lines 361 and 363 take a None and a 0.0 alike for missing
MatchOne(user_test_scores, req) ==
    IF /\ Truthy(MatchTestType(req))
       /\ ParseFloat(req.requirement_value).ok
       /\ ParseFloat(req.requirement_value).val # 0
       /\ BestUserScore(MatchingScores(user_test_scores, MatchTestType(req))) # 0
    THEN [matched |-> 1,
          score |-> Contribution(
                BestUserScore(MatchingScores(user_test_scores, MatchTestType(req))),
                ParseFloat(req.requirement_value).val)]
    ELSE [matched |-> 0, score |-> Ratio(0, 1)]

\* the loop of lines 355-370 from requirement i on
RECURSIVE MatchEach(_, _, _)
MatchEach(user_test_scores, requirements, i) ==
    IF i > Len(requirements) THEN [matched |-> 0, score |-> Ratio(0, 1)]
    ELSE IF requirements[i].requirement_type \notin {S_test_score, S_language}
    THEN MatchEach(user_test_scores, requirements, i + 1)
    ELSE [matched |-> MatchOne(user_test_scores, requirements[i]).matched
                        + MatchEach(user_test_scores, requirements, i + 1).matched,
          score |-> Plus(MatchOne(user_test_scores, requirements[i]).score,
                        MatchEach(user_test_scores, requirements, i + 1).score)]

\* _calculate_test_score_match
CalculateTestScoreMatch(user_test_scores, requirements) ==
    LET sum == MatchEach(user_test_scores, requirements, 1)
    IN  IF sum.matched = 0 THEN Ratio(60, 1)
        ELSE Times(sum.score, Ratio(1, sum.matched))

\* _get_test_score_based_recommendations
TestScoreBasedRecommendations(user_test_scores, k, is_active, degree_level, limit) ==
    IF user_test_scores = {} THEN <<>>
    ELSE LET programs ==
                Take(ActivePrograms(
                        [p \in Programs |->
                            /\ OfDegreeLevel(ProgramRow(p), degree_level)
                            /\ is_active[p]], 1), limit * 3)
             scored ==
                [i \in 1..Len(programs) |->
                    Candidate(ProgramRow(programs[i]),
                        CalculateTestScoreMatch(user_test_scores,
                            Requirements(k)[programs[i]]),
                        "test_score_based")]
         IN  Take(SortedDesc(SelectSeq(scored,
                        LAMBDA c : Less(Ratio(50, 1), c.match_score)),
                    "match_score"), limit)

\* a field-of-study score that looks for the first field in the second only
FieldSimilarityOneWay(field1, field2) ==
    IF field1 = field2 THEN 40
    ELSE IF Contains(field1, field2) THEN 20
    ELSE 0

\* lines 913-919: the fields are compared as they are written
FieldSimilarity(field1, field2) ==
    IF field1 = field2 THEN 40
    ELSE IF Contains(field1, field2) \/ Contains(field2, field1) THEN 20
    ELSE 0

\* lines 934-939: a ranking_world of 0 is the NULL of a university without
\* a ranking, which the test of line 934 passes over
RankingProximity(ranking1, ranking2) ==
    IF ranking1 # 0 /\ ranking2 # 0
            /\ (IF ranking1 > ranking2 THEN ranking1 - ranking2
                ELSE ranking2 - ranking1) < 50
    THEN 5
    ELSE 0

\* _calculate_program_similarity
CalculateProgramSimilarity(program1, program2) ==
    LET score ==
            FieldSimilarity(program1.field_of_study, program2.field_of_study)
            + (IF program1.degree_level = program2.degree_level THEN 30 ELSE 0)
            + (IF program1.language = program2.language THEN 15 ELSE 0)
            + (IF program1.duration_years = program2.duration_years
               THEN 10 ELSE 0)
            + RankingProximity(program1.ranking_world, program2.ranking_world)
    IN  Ratio(IF score < 100 THEN score ELSE 100, 1)

\* a candidate in the dict of the combiner
WithFinalScore(candidate, final_score) ==
    [final_score |-> final_score] @@ candidate

\* the combiner in which a program keeps the score of its first source
AddSourceKeepingFirst(all_recommendations, candidate, weight, hit) ==
    IF hit = 0
    THEN Append(all_recommendations,
                WithFinalScore(candidate, Times(candidate.match_score, weight)))
    ELSE all_recommendations

\* the combiner in which a later source replaces the score of an earlier one
AddSourceReplacing(all_recommendations, candidate, weight, hit) ==
    IF hit = 0
    THEN Append(all_recommendations,
                WithFinalScore(candidate, Times(candidate.match_score, weight)))
    ELSE [all_recommendations EXCEPT ![hit] =
            [@ EXCEPT !.final_score = Times(candidate.match_score, weight),
                      !.recommendation_type = "multi_source"]]

\* the combiner in which every candidate gets an entry of its own
AddSourceAppending(all_recommendations, candidate, weight, hit) ==
    Append(all_recommendations,
           WithFinalScore(candidate, Times(candidate.match_score, weight)))

\* lines 630-646 and 648-663 for one candidate of the qualification or the
\* test-score list: hit is the place of its program in the dict (a dict
\* keeps the order of insertion), 0 when it is not there
AddSource(all_recommendations, candidate, weight, hit) ==
    IF hit = 0
    THEN Append(all_recommendations,
                WithFinalScore(candidate, Times(candidate.match_score, weight)))
    ELSE [all_recommendations EXCEPT ![hit] =
            [@ EXCEPT !.final_score =
                        Plus(@, Times(candidate.match_score, weight)),
                      !.recommendation_type = "multi_source"]]

\* lines 625-628 for one candidate of the interest list: the assignment
\* replaces an entry of the same program
AddInterest(all_recommendations, candidate, weight, hit) ==
    IF hit = 0
    THEN Append(all_recommendations,
                WithFinalScore(candidate, Times(candidate.match_score, weight)))
    ELSE [all_recommendations EXCEPT ![hit] =
            WithFinalScore(candidate, Times(candidate.match_score, weight))]

\* the place of the program in the dict
PlaceOf(all_recommendations, program_id) ==
    First({i \in 1..Len(all_recommendations) :
            all_recommendations[i].program_id = program_id})

\* the three loops of lines 625-663, from candidate i of a list on
RECURSIVE AddInterests(_, _, _)
AddInterests(all_recommendations, recs, i) ==
    IF i > Len(recs) THEN all_recommendations
    ELSE AddInterests(
            AddInterest(all_recommendations, recs[i], Ratio(4, 10),
                        PlaceOf(all_recommendations, recs[i].program_id)),
            recs, i + 1)

RECURSIVE AddSources(_, _, _, _)
AddSources(all_recommendations, recs, weight, i) ==
    IF i > Len(recs) THEN all_recommendations
    ELSE AddSources(
            AddSource(all_recommendations, recs[i], weight,
                      PlaceOf(all_recommendations, recs[i].program_id)),
            recs, weight, i + 1)

\* all_recommendations after line 663
Merged(interest_recommendations, qualification_recommendations, test_score_recommendations) ==
    AddSources(
        AddSources(AddInterests(<<>>, interest_recommendations, 1),
                   qualification_recommendations, Ratio(5, 10), 1),
        test_score_recommendations, Ratio(3, 10), 1)

\* lines 669-672: the factor of the country
CountryFactor(country, preferred_countries) ==
    IF ~Given(preferred_countries) THEN Ratio(1, 1)
    ELSE IF \E i \in 1..Len(preferred_countries.value) :
                preferred_countries.value[i] = country
    THEN Ratio(12, 10)
    ELSE Ratio(7, 10)

\* lines 675-682: the factor of the fee
FeeFactor(tuition_fee, max_tuition_fee) ==
    IF /\ GivenNumber(max_tuition_fee)
       /\ tuition_fee # 0
       /\ tuition_fee > max_tuition_fee.value
    THEN Ratio(5, 10)
    ELSE Ratio(1, 1)

\* lines 685-686: the factor of the language
LanguageFactor(language, language_preference) ==
    IF GivenText(language_preference) /\ language = language_preference
    THEN Ratio(11, 10)
    ELSE Ratio(1, 1)

\* lines 667-692 for one entry of the dict
Adjusted(entry, request) ==
    [entry EXCEPT !.final_score =
        Times(Times(Times(@,
            CountryFactor(entry.country, request.preferred_countries)),
            FeeFactor(entry.tuition_fee, request.max_tuition_fee)),
            LanguageFactor(entry.language, request.language_preference))]

\* _combine_and_score_recommendations
CombineAndScoreRecommendations(interest_recommendations, qualification_recommendations, test_score_recommendations, request) ==
    LET merged == Merged(interest_recommendations,
                         qualification_recommendations,
                         test_score_recommendations)
    IN  SortedDesc([i \in 1..Len(merged) |-> Adjusted(merged[i], request)],
                   "final_score")

\* the requests of the model
RequestChoices ==
    { Request(NoList, NoList, None, NoNumber, "<None>", 10),
      Request([given |-> TRUE, value |-> <<"Germany">>], NoList, None,
              [given |-> TRUE, value |-> 1000], "English", 10),
      Request(NoList, [given |-> TRUE, value |-> <<S_law>>], S_bachelor,
              [given |-> TRUE, value |-> 0], "German", 1) }

\* get_comprehensive_recommendations, lines 52-95, on the refreshed table
Generated(refreshed, user_id, request, k, is_active, scores, user_interests, t, interest_recommendations, qualification_recommendations, test_score_recommendations) ==
    Recommendation("done", user_id, 200, t, request, refreshed.checked,
        interest_recommendations, qualification_recommendations,
        test_score_recommendations,
        CombineAndScoreRecommendations(interest_recommendations,
            qualification_recommendations, test_score_recommendations, request))

\* GET /users/{user_id}/recommendations: the route and
\* get_comprehensive_recommendations; the commit of the check of one
\* program of the refresh may fail.  For a missing user the service returns the error dict
\* and the route raises its 404 inside its own try block.
Recommend(user_id, request) ==
    IF user_id \notin Users
    THEN /\ rec' = [NoRec EXCEPT !.pc = "done", !.user_id = user_id,
                        !.http_status = RouteStatus("HTTPException404"),
                        !.time = now, !.request = request]
         /\ UNCHANGED <<now, catalog, active, test_scores, qualifications,
                        status, last_call, scan, sessions, interests, login, helper>>
    ELSE \E failing \in {0} \cup Programs :
         LET commit_ok == [p \in Programs |-> p # failing]
             refreshed ==
                RefreshUserQualificationStatuses(
                    [table |-> status, checked |-> <<>>], user_id,
                    RefreshPrograms(active), 1, catalog, test_scores,
                    qualifications, now, commit_ok)
         IN  /\ status' = refreshed.table
             /\ rec' = Generated(refreshed, user_id, request, catalog, active,
                    test_scores, interests, now,
                    InterestBasedRecommendations(interests, active,
                        request.preferred_fields, request.degree_level,
                        request.limit * 2),
                    QualificationBasedRecommendations(refreshed.table, user_id,
                        request.limit * 2),
                    TestScoreBasedRecommendations(test_scores, catalog, active,
                        request.degree_level, request.limit * 2))
             /\ UNCHANGED <<now, catalog, active, test_scores, qualifications,
                            last_call, scan, sessions, interests, login, helper>>

\* DELETE /programs/{id}: delete_program sets is_active to False
DeleteProgram(program_id) ==
    /\ active[program_id]
    /\ active' = [active EXCEPT ![program_id] = FALSE]
    /\ rec' = NoRec
    /\ UNCHANGED <<now, catalog, test_scores, qualifications, status,
                   last_call, scan, sessions, interests, login, helper>>

\* the user deletes their test scores, qualifications and interests (the
\* delete routes of user_test_score.py, user_qualification.py and
\* user_interest.py)
DeleteProfile ==
    /\ test_scores # {} \/ qualifications # <<>> \/ interests # <<>>
    /\ test_scores' = {}
    /\ qualifications' = <<>>
    /\ interests' = <<>>
    /\ rec' = NoRec
    /\ UNCHANGED <<now, catalog, active, status, last_call, scan, sessions,
                   login, helper>>

----------------------------------------------------------------------------
(* Login and the task it creates *)

\* a login request: pc is "idle", "returned" (the handler returned and the
\* response is not sent yet) or "delivered"; task is the state of the task
\* created at line 69: "none", "pending", "running", "done" or "failed"
NoLogin == [pc |-> "idle", user_id |-> 0, http_status |-> 0, token |-> 0,
            task |-> "none"]

\* POST /auth/login, lines 64-72: the service authenticates and raises 401
\* for a wrong email or password, else the handler creates the task and
\* returns the token
LoginRoute(user_id, password_ok) ==
    /\ login.pc # "returned"
    /\ login.task \notin {"pending", "running"}
    /\ login' =
        IF user_id \in Users /\ password_ok
        THEN [pc |-> "returned", user_id |-> user_id, http_status |-> 200,
              token |-> user_id, task |-> "pending"]
        ELSE [pc |-> "returned", user_id |-> user_id, http_status |-> 401,
              token |-> 0, task |-> "none"]
    /\ UNCHANGED <<now, catalog, active, test_scores, qualifications, status,
                   last_call, scan, sessions, interests, rec, helper>>

\* the event loop sends the response of the handler; the body of the task is
\* synchronous, so while it runs the loop does nothing else
LoginDeliver ==
    /\ login.pc = "returned"
    /\ login.task # "running"
    /\ login' = [login EXCEPT !.pc = "delivered"]
    /\ UNCHANGED <<now, catalog, active, test_scores, qualifications, status,
                   last_call, scan, sessions, interests, rec, helper>>

\* the event loop starts the task, lines 32-40, at the first await after
\* line 69: the framework may await before it sends the response (the
\* teardown of the dependency get_mysql_session), or only after.  Opening
\* the session or the programs query may raise, which lines 44-45 log.
BackgroundStart ==
    /\ login.task = "pending"
    /\ \E session_ok \in BOOLEAN :
        IF session_ok
        THEN /\ login' = [login EXCEPT !.task = "running"]
             /\ scan' = [pc |-> "running", user_id |-> login.user_id,
                         programs |-> ActivePrograms(active, 1), i |-> 1,
                         results |-> <<>>, failed |-> <<>>, http_status |-> 0]
        ELSE /\ login' = [login EXCEPT !.task = "failed"]
             /\ scan' = scan
    /\ UNCHANGED <<now, catalog, active, test_scores, qualifications, status,
                   last_call, sessions, interests, rec, helper>>

\* the scan of the task returns, lines 40-42, and the task ends
BackgroundEnd ==
    /\ login.task = "running"
    /\ scan.pc = "running"
    /\ scan.i > Len(scan.programs)
    /\ scan' = [scan EXCEPT !.pc = "done"]
    /\ login' = [login EXCEPT !.task = "done"]
    /\ UNCHANGED <<now, catalog, active, test_scores, qualifications, status,
                   last_call, sessions, interests, rec, helper>>

----------------------------------------------------------------------------
(* Single checks: the check route and the clock, for a user with any of    *)
(* the test scores and qualification histories                              *)

Init ==
    /\ now = 0
    /\ catalog \in CatalogIds
    /\ active = [p \in Programs |-> TRUE]
    /\ test_scores \in SUBSET ScoreChoices
    /\ qualifications \in QualChoices
    /\ status = <<>>
    /\ last_call = NoCall
    /\ scan = NoScan
    /\ sessions = IdleSessions
    /\ interests = <<>>
    /\ login = NoLogin
    /\ helper = NoHelperCall
    /\ rec = NoRec

Next ==
    \/ \E u \in UserIds, p \in ProgramIds : CheckRoute(u, p)
    \/ Tick

Spec == Init /\ [][Next]_vars

----------------------------------------------------------------------------
(* Bulk scans: check_user_against_all_programs on any day over a catalog    *)
(* with any programs inactive, the loop taking its rounds to the end        *)

ScanInit ==
    /\ now \in 0..MaxNow
    /\ catalog \in CatalogIds
    /\ active \in [Programs -> BOOLEAN]
    /\ test_scores \in SUBSET ScoreChoices
    /\ qualifications \in QualChoices
    /\ status = <<>>
    /\ last_call = NoCall
    /\ scan = NoScan
    /\ sessions = IdleSessions
    /\ interests = <<>>
    /\ login = NoLogin
    /\ helper = NoHelperCall
    /\ rec = NoRec

ScanNext ==
    \/ \E u \in UserIds : ScanStart(u)
    \/ ScanStep
    \/ ScanReturn

ScanSpec ==
    ScanInit /\ [][ScanNext]_vars /\ WF_vars(ScanStep) /\ WF_vars(ScanReturn)

----------------------------------------------------------------------------
(* Concurrent requests: each in its own Session, the steps of their checks  *)
(* interleaving                                                             *)

ConcInit == Init

ConcNext ==
    \/ \E s \in Sessions, u \in Users, p \in Programs : SessionBegin(s, u, p)
    \/ \E s \in Sessions : SessionCommit(s)

ConcSpec == ConcInit /\ [][ConcNext]_vars

----------------------------------------------------------------------------
(* Logins: the login route, the delivery of its response and the task on    *)
(* the one event loop                                                       *)

LoginInit ==
    /\ now = 0
    /\ catalog \in CatalogIds
    /\ active \in [Programs -> BOOLEAN]
    /\ test_scores \in SUBSET ScoreChoices
    /\ qualifications \in QualChoices
    /\ status = <<>>
    /\ last_call = NoCall
    /\ scan = NoScan
    /\ sessions = IdleSessions
    /\ interests = <<>>
    /\ login = NoLogin
    /\ helper = NoHelperCall
    /\ rec = NoRec

LoginNext ==
    \/ \E u \in UserIds, password_ok \in BOOLEAN : LoginRoute(u, password_ok)
    \/ LoginDeliver
    \/ BackgroundStart
    \/ ScanStep
    \/ BackgroundEnd

LoginSpec == LoginInit /\ [][LoginNext]_vars

----------------------------------------------------------------------------
(* Recommendation requests over the days, the user having any interests    *)
(* and deleting their profile, programs being deactivated                   *)

\* the profiles of the user: no signals at all, or every test score, the
\* qualification history with a completed degree and an interest
ProfileChoices ==
    { [test_scores |-> {}, qualifications |-> <<>>, interests |-> <<>>] }
    \cup { [test_scores |-> ScoreChoices, qualifications |-> quals,
            interests |-> user_interests] :
                quals \in QualChoices \ {<<>>},
                user_interests \in InterestChoices \ {<<>>} }

\* the catalogs of the requests: with a program the full profile
\* qualifies for, and with a program whose requirement is no number
RecCatalogIds == {2, 3}

RecInit ==
    /\ now = 0
    /\ catalog \in RecCatalogIds
    /\ active = [p \in Programs |-> TRUE]
    /\ \E profile \in ProfileChoices :
        /\ test_scores = profile.test_scores
        /\ qualifications = profile.qualifications
        /\ interests = profile.interests
    /\ status = <<>>
    /\ last_call = NoCall
    /\ scan = NoScan
    /\ sessions = IdleSessions
    /\ login = NoLogin
    /\ helper = NoHelperCall
    /\ rec = NoRec

RecNext ==
    \/ \E u \in UserIds, request \in RequestChoices : Recommend(u, request)
    \/ \E p \in Programs : DeleteProgram(p)
    \/ DeleteProfile
    \/ Tick

RecSpec == RecInit /\ [][RecNext]_vars

----------------------------------------------------------------------------
(* The combiner on any candidate lists of the three generators and any      *)
(* country, fee and language filters                                        *)

\* the lists a generator may return: any programs, each with one of the
\* match scores, sorted as the generator sorts them
SourceLists(recommendation_type, scores) ==
    { SortedDesc(
        [i \in 1..Len(ActivePrograms([p \in Programs |-> f[p] # 0], 1)) |->
            Candidate(
                ProgramRow(ActivePrograms([p \in Programs |-> f[p] # 0], 1)[i]),
                scores[f[ActivePrograms([p \in Programs |-> f[p] # 0], 1)[i]]],
                recommendation_type)],
        "match_score") : f \in [Programs -> 0..Len(scores)] }

\* the filters of a request to the combiner
CombineRequests ==
    { Request(preferred_countries, NoList, None, max_tuition_fee,
              language_preference, 10) :
        preferred_countries \in
            {NoList, [given |-> TRUE, value |-> <<"Germany">>]},
        max_tuition_fee \in
            {NoNumber, [given |-> TRUE, value |-> 0],
             [given |-> TRUE, value |-> 1000]},
        language_preference \in {"<None>", "English"} }

CombineInit ==
    /\ now = 0
    /\ catalog = 1
    /\ active = [p \in Programs |-> TRUE]
    /\ test_scores = {}
    /\ qualifications = <<>>
    /\ status = <<>>
    /\ last_call = NoCall
    /\ scan = NoScan
    /\ sessions = IdleSessions
    /\ interests = <<>>
    /\ login = NoLogin
    /\ helper = NoHelperCall
    /\ \E interest_recommendations \in
                SourceLists("interest_based", <<Ratio(100, 1)>>),
          qualification_recommendations \in
                SourceLists("qualification_based",
                            <<Ratio(80, 1), Ratio(100, 1)>>),
          test_score_recommendations \in
                SourceLists("test_score_based", <<Ratio(1200, 13)>>) :
        rec = Recommendation("inputs", 1, 0, 0,
                Request(NoList, NoList, None, NoNumber, "<None>", 10), <<>>,
                interest_recommendations, qualification_recommendations,
                test_score_recommendations, <<>>)

\* lines 65-76: the combiner runs on the lists of the generators
Combine(request) ==
    /\ rec.pc \in {"inputs", "done"}
    /\ rec' = Recommendation("done", rec.user_id, 200, now, request, <<>>,
                rec.interest_recommendations,
                rec.qualification_recommendations,
                rec.test_score_recommendations,
                CombineAndScoreRecommendations(rec.interest_recommendations,
                    rec.qualification_recommendations,
                    rec.test_score_recommendations, request))
    /\ UNCHANGED <<now, catalog, active, test_scores, qualifications, status,
                   last_call, scan, sessions, interests, login, helper>>

CombineNext == \E request \in CombineRequests : Combine(request)

CombineSpec == CombineInit /\ [][CombineNext]_vars

----------------------------------------------------------------------------
(* The helper methods of the two services, each called on its own on any    *)
(* of the arguments below                                                   *)

\* the UserInterest rows of the calls: up to two, of any field and level
InterestRows ==
    { [field_of_study |-> field, interest_level |-> level] :
        field \in {S_cs, S_CS, S_c, S_law},
        level \in {"high", "medium", "low"} }

InterestLists ==
    {<<>>} \cup { <<a>> : a \in InterestRows }
           \cup { <<a, b>> : a \in InterestRows, b \in InterestRows }

\* the preferred_fields of the calls: None, [] and lists of one and two
PreferredFieldLists ==
    {NoList, [given |-> TRUE, value |-> <<>>]}
        \cup { [given |-> TRUE, value |-> fields] :
                fields \in {<<S_cs>>, <<S_c>>, <<S_law>>, <<S_c, S_cs>>,
                            <<S_cs, S_c>>} }

\* the calls of _calculate_interest_match_score
InterestMatchCalls ==
    { HelperCall("called", "_calculate_interest_match_score",
              [user_interests |-> user_interests,
               field_of_study |-> field_of_study,
               preferred_fields |-> preferred_fields], Ratio(0, 1)) :
        user_interests \in InterestLists,
        field_of_study \in {S_cs, S_c},
        preferred_fields \in PreferredFieldLists }

\* the calls of _calculate_test_score_match: the user holding any of three
\* IELTS scores, the program carrying any of the requirement lists
TestScoreMatchCalls ==
    { HelperCall("called", "_calculate_test_score_match",
              [user_test_scores |-> user_test_scores,
               requirements |-> WithIds(1, ReqProfiles[k])], Ratio(0, 1)) :
        user_test_scores \in
            SUBSET (ScoreChoices
                    \cup {[test_type |-> S_IELTS, score |-> S_6_2,
                           expiry_date |-> <<>>]}),
        k \in CatalogIds }

\* the UserQualification rows of the calls: completed or not, of any of
\* the degrees, grade_point and max_grade_point a number, no number or NULL
QualificationRows(types, grade_points, max_grade_points) ==
    { [qualification_type |-> qualification_type,
       is_completed |-> is_completed,
       grade_point |-> grade_point,
       max_grade_point |-> max_grade_point] :
        qualification_type \in types, is_completed \in BOOLEAN,
        grade_point \in grade_points, max_grade_point \in max_grade_points }

\* the lists of up to two of the rows
UpToTwo(rows) ==
    {<<>>} \cup { <<a>> : a \in rows } \cup { <<a, b>> : a \in rows, b \in rows }

\* the calls of _check_gpa_requirement
GpaRequirementCalls ==
    { HelperCall("called", "_check_gpa_requirement",
                 [requirement |-> Req(S_gpa, value, None, TRUE, None),
                  qualifications |-> quals], Ratio(0, 1)) :
        value \in {S_3_5, S_4_0},
        quals \in
            UpToTwo(QualificationRows({S_bachelor}, {S_3_8, S_3_5, S_abc, None},
                                      {S_4_0, S_0, S_abc, None})) }

\* the calls of _check_degree_requirement: the target any level of the
\* hierarchy, in small letters or capitalised, or a word outside it
DegreeRequirementCalls ==
    { HelperCall("called", "_check_degree_requirement",
                 [requirement |-> Req(S_degree_level, value, None, TRUE, None),
                  qualifications |-> quals], Ratio(0, 1)) :
        value \in {S_high_school, S_diploma, S_certificate, S_bachelor,
                   S_Bachelor, S_master, S_phd, S_honours},
        quals \in
            UpToTwo(QualificationRows(
                {S_high_school, S_diploma, S_certificate, S_bachelor,
                 S_master, S_phd}, {None}, {None})) }

\* the calls of _check_language_requirement on any day: the requirement
\* naming a test, naming it in its description only, or naming none
LanguageRequirementCalls ==
    { HelperCall("called", "_check_language_requirement",
                 [requirement |->
                    Req(S_language, S_6_5, test_type, TRUE, description),
                  test_scores |-> scores, today |-> today], Ratio(0, 1)) :
        test_type \in {None, S_IELTS, S_TOEFL},
        description \in {None, S_ielts_desc},
        scores \in
            SUBSET (ScoreChoices
                    \cup {[test_type |-> S_TOEFL, score |-> S_7_0,
                           expiry_date |-> <<>>]}),
        today \in 0..MaxNow }

\* the Program rows of the calls of _calculate_program_similarity, with the
\* ranking_world of their university; duration_years in tenths of a year,
\* 0 for NULL
SimilarityPrograms ==
    { [field_of_study |-> field_of_study, degree_level |-> degree_level,
       language |-> language, duration_years |-> duration_years,
       ranking_world |-> ranking_world] :
        field_of_study \in {S_cs, S_c, S_law},
        degree_level \in {S_bachelor, S_master},
        language \in {"English", "German"},
        duration_years \in {0, 20},
        ranking_world \in {0, 10, 59, 60} }

\* the calls of _calculate_program_similarity
ProgramSimilarityCalls ==
    { HelperCall("called", "_calculate_program_similarity",
                 [program1 |-> program1, program2 |-> program2], Ratio(0, 1)) :
        program1 \in SimilarityPrograms, program2 \in SimilarityPrograms }

HelperInit ==
    /\ now = 0
    /\ catalog = 1
    /\ active = [p \in Programs |-> TRUE]
    /\ test_scores = {}
    /\ qualifications = <<>>
    /\ status = <<>>
    /\ last_call = NoCall
    /\ scan = NoScan
    /\ sessions = IdleSessions
    /\ interests = <<>>
    /\ login = NoLogin
    /\ rec = NoRec
    /\ helper \in InterestMatchCalls \cup TestScoreMatchCalls
                    \cup GpaRequirementCalls \cup DegreeRequirementCalls
                    \cup LanguageRequirementCalls \cup ProgramSimilarityCalls

\* _calculate_interest_match_score returns
InterestMatchScoreReturns ==
    /\ helper.pc = "called"
    /\ helper.method = "_calculate_interest_match_score"
    /\ helper' = [helper EXCEPT
            !.pc = "returned",
            !.value = CalculateInterestMatchScore(helper.args.user_interests,
                        helper.args.field_of_study,
                        helper.args.preferred_fields)]
    /\ UNCHANGED <<now, catalog, active, test_scores, qualifications, status,
                   last_call, scan, sessions, interests, login, rec>>

\* _calculate_test_score_match returns
TestScoreMatchReturns ==
    /\ helper.pc = "called"
    /\ helper.method = "_calculate_test_score_match"
    /\ helper' = [helper EXCEPT
            !.pc = "returned",
            !.value = CalculateTestScoreMatch(helper.args.user_test_scores,
                        helper.args.requirements)]
    /\ UNCHANGED <<now, catalog, active, test_scores, qualifications, status,
                   last_call, scan, sessions, interests, login, rec>>

\* _check_gpa_requirement returns or raises
GpaRequirementReturns ==
    /\ helper.pc = "called"
    /\ helper.method = "_check_gpa_requirement"
    /\ helper' = [helper EXCEPT
            !.pc = "returned",
            !.value = CheckGpaRequirement(helper.args.requirement,
                        helper.args.qualifications)]
    /\ UNCHANGED <<now, catalog, active, test_scores, qualifications, status,
                   last_call, scan, sessions, interests, login, rec>>

\* _check_degree_requirement returns or raises
DegreeRequirementReturns ==
    /\ helper.pc = "called"
    /\ helper.method = "_check_degree_requirement"
    /\ helper' = [helper EXCEPT
            !.pc = "returned",
            !.value = CheckDegreeRequirement(helper.args.requirement,
                        helper.args.qualifications)]
    /\ UNCHANGED <<now, catalog, active, test_scores, qualifications, status,
                   last_call, scan, sessions, interests, login, rec>>

\* _check_language_requirement returns or raises
LanguageRequirementReturns ==
    /\ helper.pc = "called"
    /\ helper.method = "_check_language_requirement"
    /\ helper' = [helper EXCEPT
            !.pc = "returned",
            !.value = CheckLanguageRequirement(helper.args.requirement,
                        helper.args.test_scores, helper.args.today)]
    /\ UNCHANGED <<now, catalog, active, test_scores, qualifications, status,
                   last_call, scan, sessions, interests, login, rec>>

\* _calculate_program_similarity returns
ProgramSimilarityReturns ==
    /\ helper.pc = "called"
    /\ helper.method = "_calculate_program_similarity"
    /\ helper' = [helper EXCEPT
            !.pc = "returned",
            !.value = CalculateProgramSimilarity(helper.args.program1,
                        helper.args.program2)]
    /\ UNCHANGED <<now, catalog, active, test_scores, qualifications, status,
                   last_call, scan, sessions, interests, login, rec>>

HelperNext ==
    \/ InterestMatchScoreReturns
    \/ TestScoreMatchReturns
    \/ GpaRequirementReturns
    \/ DegreeRequirementReturns
    \/ LanguageRequirementReturns
    \/ ProgramSimilarityReturns

HelperSpec == HelperInit /\ [][HelperNext]_vars

----------------------------------------------------------------------------
(* Properties *)

\* the rows of the table for a pair
RowsFor(table, user_id, program_id) ==
    {i \in 1..Len(table) :
        table[i].user_id = user_id /\ table[i].program_id = program_id}

\* the row of the pair of a call
RowOfCall(table, call) == table[ExistingStatus(table, call.user_id, call.program_id)]

\* this step is a call of check_user_qualification
CallStep == last_call' # last_call \/ status' # status

\* this step is a successful call of check_user_qualification
SuccessfulCallStep == CallStep /\ last_call'.outcome = "ok"

\* two rows agree in every field but last_checked
SameButLastChecked(row1, row2) ==
    /\ row1.id = row2.id
    /\ row1.user_id = row2.user_id
    /\ row1.program_id = row2.program_id
    /\ row1.is_qualified = row2.is_qualified
    /\ row1.qualification_score = row2.qualification_score
    /\ row1.missing_requirements = row2.missing_requirements

\* the row of the latest successful call holds what the call computed
PersistedAsComputed(table, call) ==
    /\ ExistingStatus(table, call.user_id, call.program_id) # 0
    /\ RowOfCall(table, call).is_qualified = call.is_qualified
    /\ RowOfCall(table, call).qualification_score
            = Numeric52(call.qualification_score)
    /\ RowOfCall(table, call).missing_requirements = call.missing_requirements

\* C1: after any number of sequential successful checks of a pair the table
\* holds exactly one row for the pair: a successful check of a pair without a
\* row appends one row, and a successful check of a pair with a row changes
\* that row in place and leaves the number and order of rows alone.
C1_UpsertOneRow ==
    /\ [](/\ \A u \in UserIds, p \in ProgramIds :
                Cardinality(RowsFor(status, u, p)) <= 1
          /\ last_call.outcome = "ok" =>
                Cardinality(RowsFor(status, last_call.user_id,
                                    last_call.program_id)) = 1)
    /\ [][SuccessfulCallStep =>
            LET existing == ExistingStatus(status, last_call'.user_id,
                                           last_call'.program_id)
            IN  IF existing = 0
                THEN /\ Len(status') = Len(status) + 1
                     /\ SubSeq(status', 1, Len(status)) = status
                ELSE /\ Len(status') = Len(status)
                     /\ \A i \in 1..Len(status) :
                            i # existing => status'[i] = status[i]
                     /\ status'[existing].id = status[existing].id]_vars

\* C1 witness: a pair was checked again and still has one row, the table
\* holding a row of another pair as well
C1_Witness ==
    /\ last_call.repeats
    /\ Len(status) = 2
    /\ Cardinality(RowsFor(status, last_call.user_id, last_call.program_id)) = 1

\* this step is the second of two successive successful checks of one pair,
\* the user's test scores being the same at both
SecondCallStep ==
    /\ SuccessfulCallStep
    /\ last_call.outcome = "ok"
    /\ last_call'.user_id = last_call.user_id
    /\ last_call'.program_id = last_call.program_id
    /\ last_call.test_scores = test_scores

\* no test score passes its expiry date between the check that wrote the row
\* and now
NoExpiryBetween(row) ==
    \A score \in test_scores :
        IsValidScore(score, row.last_checked) = IsValidScore(score, now)

\* C3 as stated: the second of two successive checks of a pair, with the
\* user's test scores and qualifications and the program's requirements
\* unchanged in between, leaves every field of the row but last_checked as
\* the first left it.
C3_IdempotentAsStated ==
    [][SecondCallStep =>
        SameButLastChecked(RowOfCall(status, last_call),
                           RowOfCall(status', last_call))]_vars

\* C3 amended: the same, provided also that none of the user's test scores
\* passes its expiry date between the two checks.
C3_IdempotentWhileNoScoreExpires ==
    [][(SecondCallStep /\ NoExpiryBetween(RowOfCall(status, last_call))) =>
        SameButLastChecked(RowOfCall(status, last_call),
                           RowOfCall(status', last_call))]_vars

\* C3 witness: a second successive check, on the day of the first, of a
\* program with a requirement the user misses, the user holding a score
C3_Witness ==
    /\ last_call.repeats
    /\ last_call.missing_requirements # <<>>
    /\ test_scores # {}
    /\ Today(now) = 0
    /\ RowOfCall(status, last_call).last_checked = now

\* C4: the score of every result and of every stored row is within 0..100,
\* a result helper 100 has requirements_met = total_requirements, and a row
\* helper 100 lists no missing requirement.
C4_ScoreRange ==
    /\ last_call.outcome = "ok" =>
        /\ 0 <= last_call.qualification_score.n
        /\ last_call.qualification_score.n <= 100 * last_call.qualification_score.d
        /\ last_call.qualification_score.n = 100 * last_call.qualification_score.d
            => last_call.requirements_met = last_call.total_requirements
    /\ \A i \in 1..Len(status) :
        /\ 0 <= status[i].qualification_score
        /\ status[i].qualification_score <= 10000
        /\ status[i].qualification_score = 10000
            => status[i].missing_requirements = <<>>

\* C4 witness: a result helper 100 next to a row with a score strictly
\* between 0 and 100
C4_Witness ==
    /\ last_call.outcome = "ok"
    /\ last_call.qualification_score.n = 100 * last_call.qualification_score.d
    /\ last_call.total_requirements > 0
    /\ \E i \in 1..Len(status) :
        status[i].qualification_score \in 1..9999

\* no mandatory requirement of the call's results is unmet
MandatoryAllMet(call) ==
    \A i \in 1..Len(call.detailed_results) :
        call.detailed_results[i].is_mandatory => call.detailed_results[i].is_met

\* C5: is_qualified is true exactly when the score is 100 and no mandatory
\* requirement is unmet; so a qualified result has every mandatory
\* requirement met, and an unmet mandatory one makes the result unqualified.
C5_QualifiedIffFullAndMandatory ==
    last_call.outcome = "ok" =>
        /\ last_call.is_qualified <=>
            (/\ last_call.qualification_score.n
                    = 100 * last_call.qualification_score.d
             /\ MandatoryAllMet(last_call))
        /\ last_call.is_qualified => MandatoryAllMet(last_call)
        /\ ~MandatoryAllMet(last_call) => ~last_call.is_qualified

\* C5 witness: a check whose mandatory requirements are all met and whose
\* score is below 100, which is not qualified
C5_Witness ==
    /\ last_call.outcome = "ok"
    /\ MandatoryAllMet(last_call)
    /\ last_call.requirements_met > 0
    /\ last_call.requirements_met < last_call.total_requirements
    /\ ~last_call.is_qualified

\* C6: the check of a program without requirements yields score 0 and
\* is_qualified false, and the row of the pair holds exactly that.
C6_NoRequirementsScoreZero ==
    (last_call.outcome = "ok" /\ last_call.total_requirements = 0) =>
        /\ last_call.qualification_score.n = 0
        /\ ~last_call.is_qualified
        /\ PersistedAsComputed(status, last_call)
        /\ RowOfCall(status, last_call).qualification_score = 0
        /\ ~RowOfCall(status, last_call).is_qualified
        /\ RowOfCall(status, last_call).missing_requirements = <<>>

\* C6 witness: a user with test scores and qualifications was checked against
\* a program without requirements
C6_Witness ==
    /\ last_call.outcome = "ok"
    /\ last_call.total_requirements = 0
    /\ test_scores # {}
    /\ qualifications # <<>>

\* C7 as stated: a check for a user id or program id that does not exist
\* ends as not found, which the route answers with 404, and leaves the pair
\* without a row.
C7_NotFoundIs404 ==
    (/\ last_call.outcome # "none"
     /\ (last_call.user_id \notin Users \/ last_call.program_id \notin Programs))
    =>  /\ last_call.outcome = "error"
        /\ last_call.http_status = 404
        /\ RowsFor(status, last_call.user_id, last_call.program_id) = {}

\* the requirement's value is missing or cannot be read as its type needs
UnusableValue(requirement) ==
    IF requirement.requirement_type \in {S_test_score, S_gpa, S_language}
    THEN ~ParseFloat(requirement.requirement_value).ok
    ELSE IF requirement.requirement_type = S_degree_level
    THEN \/ requirement.requirement_value = None
         \/ DegreeRank(Lower(requirement.requirement_value)) = 0
    ELSE FALSE

\* the user has nothing to show for the requirement
NoEvidence(requirement, scores, quals) ==
    IF requirement.requirement_type \in {S_test_score, S_language}
    THEN scores = {}
    ELSE IF requirement.requirement_type = S_gpa
    THEN \A i \in 1..Len(quals) :
            ~(quals[i].is_completed /\ Truthy(quals[i].grade_point))
    ELSE IF requirement.requirement_type = S_degree_level
    THEN \A i \in 1..Len(quals) : ~quals[i].is_completed
    ELSE FALSE

\* the results of the call show every requirement of the program, those
\* with an unusable value or without evidence as not met
DegradedToNotMet(call) ==
    LET requirement_list == Requirements(catalog)[call.program_id]
    IN  /\ Len(call.detailed_results) = Len(requirement_list)
        /\ \A i \in 1..Len(requirement_list) :
            (\/ UnusableValue(requirement_list[i])
             \/ NoEvidence(requirement_list[i], call.test_scores, qualifications))
            => ~call.detailed_results[i].is_met

\* C8 as stated: a requirement of any type whose value is missing or
\* unparsable, or for which the user has no evidence, is evaluated as not met
\* without raising: the check of an existing pair completes (its commit not
\* failing), shows that requirement as not met and persists the status.
C8_UnusableRequirementIsNotMet ==
    (/\ last_call.outcome # "none"
     /\ last_call.user_id \in Users
     /\ last_call.program_id \in Programs
     /\ last_call.exc # "SQLAlchemyError")
    =>  /\ last_call.outcome = "ok"
        /\ DegradedToNotMet(last_call)
        /\ PersistedAsComputed(status, last_call)

\* no round of the scan failed at its commit
NoCommitFailed ==
    \A j \in 1..Len(scan.failed) : scan.failed[j].exc # "SQLAlchemyError"

\* C9 as stated: the scan for an existing user returns one result per
\* active program, in their order, also when programs carry malformed
\* requirements, which the results show as not met.
C9_ScanOneResultPerProgram ==
    (scan.pc = "done" /\ scan.user_id \in Users /\ NoCommitFailed)
    =>  /\ Len(scan.results) = Len(scan.programs)
        /\ \A i \in 1..Len(scan.results) :
            /\ scan.results[i].program_id = scan.programs[i]
            /\ DegradedToNotMet(scan.results[i])

\* how often the scan visited the program: its results and its logged failures
Visits(program_id) ==
    Cardinality({j \in 1..Len(scan.results) :
                    scan.results[j].program_id = program_id})
    + Cardinality({j \in 1..Len(scan.failed) :
                    scan.failed[j].program_id = program_id})

\* the finished scan visited every active program once and no other, and
\* every program whose check succeeded has its result listed and a row stored
ScanComplete ==
    scan.pc = "done" =>
        /\ scan.http_status = 200
        /\ \A p \in Programs : Visits(p) = IF active[p] THEN 1 ELSE 0
        /\ Len(scan.results) + Len(scan.failed) = Len(scan.programs)
        /\ \A j \in 1..Len(scan.results) :
            scan.results[j].outcome = "ok" =>
                ExistingStatus(status, scan.user_id,
                               scan.results[j].program_id) # 0

\* a round of the scan whose check succeeds stores what the check computed
\* and lists it, and a round whose check fails goes on to the next program
ScanRoundKeepsGoing ==
    (scan.pc = "running" /\ scan'.pc = "running" /\ scan' # scan) =>
        /\ scan'.i = scan.i + 1
        /\ IF last_call'.outcome = "raised"
           THEN /\ scan'.results = scan.results
                /\ status' = status
           ELSE /\ scan'.results = Append(scan.results, [last_call' EXCEPT
                                                          !.repeats = FALSE])
                /\ last_call'.outcome = "ok" =>
                        PersistedAsComputed(status', last_call')

\* C10: a failure while checking one active program never stops the scan:
\* the scan always ends, having visited every active program once, and every
\* active program whose check did not fail has its status stored and its
\* result in the returned list, wherever the failing programs stand.
C10_ScanNeverStopsEarly ==
    /\ []ScanComplete
    /\ [][ScanRoundKeepsGoing]_vars
    /\ (scan.pc = "running") ~> (scan.pc = "done")

\* C10 witness: a finished scan in which a program failed before a later
\* program succeeded
C10_Witness ==
    /\ scan.pc = "done"
    /\ \E f \in 1..Len(scan.failed), r \in 1..Len(scan.results) :
        /\ scan.failed[f].program_id < scan.results[r].program_id
        /\ scan.results[r].outcome = "ok"

\* the sessions that finished a successful check of the pair
Finished(user_id, program_id) ==
    {s \in Sessions :
        /\ sessions[s].pc = "done"
        /\ sessions[s].call.outcome = "ok"
        /\ sessions[s].call.user_id = user_id
        /\ sessions[s].call.program_id = program_id}

\* the sessions in the middle of a check of the pair
InFlight(user_id, program_id) ==
    {s \in Sessions :
        /\ sessions[s].pc = "read"
        /\ sessions[s].call.user_id = user_id
        /\ sessions[s].call.program_id = program_id}

\* C2 as stated: once concurrent checks of a pair have all ended, the table
\* holds exactly one row for the pair, and the row is what one of the checks
\* computed.
C2_ConcurrentUpsertOneRow ==
    \A u \in Users, p \in Programs :
        (Finished(u, p) # {} /\ InFlight(u, p) = {}) =>
            /\ Cardinality(RowsFor(status, u, p)) = 1
            /\ \E s \in Finished(u, p) :
                PersistedAsComputed(status, sessions[s].call)

\* C16 as stated: a scan for a user id that does not exist ends with a
\* not-found failure, never with a successful result list, and writes no
\* status row.
C16_MissingUserScanIsNotFound ==
    (scan.pc = "done" /\ scan.user_id \notin Users) =>
        /\ scan.http_status \in 400..499
        /\ \A i \in 1..Len(status) : status[i].user_id # scan.user_id

\* the response of a login with the right password is the token of the
\* user, with status 200, whatever became of the task
LoginOutcomeIndependent ==
    (login.pc \in {"returned", "delivered"} /\ login.task # "none") =>
        /\ login.http_status = 200
        /\ login.token = login.user_id

\* C11 as stated: the login's outcome is the token whether the scan of the
\* task succeeds, fails or has not run, no failure of the scan shows in the
\* login, and the response is delivered without waiting for the scan: the
\* scan does not start while the response is still to be sent.
C11_LoginFireAndForget ==
    /\ LoginOutcomeIndependent
    /\ login.pc = "returned" => login.task \in {"none", "pending"}

\* a recommendation request for an existing user has just been answered:
\* the clock, the catalog and the profile are those the request saw, and
\* the table is as the refresh left it for the generators
Answered == rec.pc = "done" /\ rec.user_id \in Users

\* the row was checked no longer ago than the TTL of 60 minutes
WithinTtl(row, t) == (t - row.last_checked) * 1440 <= 60

\* the pair has a row within the TTL
Fresh(table, user_id, program_id, t) ==
    \E i \in RowsFor(table, user_id, program_id) : WithinTtl(table[i], t)

\* C12 as stated: when a recommendation request reaches its generators,
\* every active program has a status row of the user that is not older than
\* the TTL.
C12_StatusesFreshBeforeGenerators ==
    Answered =>
        \A p \in Programs : active[p] => Fresh(status, rec.user_id, p, now)

\* C13 as stated: a recommendation request for an existing user without
\* interests, test scores and qualifications is answered with status 200
\* and an empty list.
C13_NoSignalsEmptyList ==
    (Answered /\ test_scores = {} /\ qualifications = <<>> /\ interests = <<>>)
    =>  /\ rec.http_status = 200
        /\ rec.recommendations = <<>>
        /\ rec.total_recommendations = 0

\* C17 as stated: no expired test score is used as evidence: the match
\* value of every candidate of the test-score generator is the one the
\* unexpired scores of the user give.
C17_ExpiredScoresNeverUsed ==
    Answered =>
        \A i \in 1..Len(rec.test_score_recommendations) :
            rec.test_score_recommendations[i].match_score
                = CalculateTestScoreMatch(ValidScores(test_scores, now),
                    Requirements(catalog)[
                        rec.test_score_recommendations[i].program_id])

\* C18 as stated: every program in the output of a recommendation request
\* is active at the time of the request.
C18_OnlyActivePrograms ==
    Answered =>
        \A i \in 1..Len(rec.recommendations) :
            active[rec.recommendations[i].program_id]

\* the step is a recommendation request of an existing user
RecommendStep == rec'.pc = "done" /\ rec'.user_id \in Users

\* the pair has no row, or its row is older than the TTL
MissingOrOld(table, user_id, program_id, t) ==
    ~Fresh(table, user_id, program_id, t)

\* the programs the request called check_user_qualification for
CheckedPrograms(request) == {request.checked[i] : i \in 1..Len(request.checked)}

\* the request leaves every row of a pair it did not check as it was
UncheckedRowsKept ==
    /\ Len(status') >= Len(status)
    /\ \A i \in 1..Len(status) :
        (status[i].user_id # rec'.user_id
            \/ status[i].program_id \notin CheckedPrograms(rec'))
        => status'[i] = status[i]

ScoreFrom(recs, program_id) ==
    IF PlaceOf(recs, program_id) = 0 THEN Ratio(0, 1)
    ELSE recs[PlaceOf(recs, program_id)].match_score

\* 0.4 x interest + 0.5 x qualification + 0.3 x test score
WeightedSum(program_id) ==
    Plus(Plus(Times(Ratio(4, 10),
                    ScoreFrom(rec.interest_recommendations, program_id)),
              Times(Ratio(5, 10),
                    ScoreFrom(rec.qualification_recommendations, program_id))),
         Times(Ratio(3, 10),
               ScoreFrom(rec.test_score_recommendations, program_id)))

\* the final_score the list has for the program
FinalScoreIn(recs, program_id) == recs[PlaceOf(recs, program_id)].final_score

\* the request gives no country, fee or language filter
NoFilters(request) ==
    /\ ~request.preferred_countries.given
    /\ ~request.max_tuition_fee.given
    /\ request.language_preference = "<None>"

\* the list without its i-th candidate
Without(recs, i) == SubSeq(recs, 1, i - 1) \o SubSeq(recs, i + 1, Len(recs))

\* the program is in the list
Nominates(recs, program_id) == PlaceOf(recs, program_id) # 0

\* C14: for a program the interest source nominated, the output with the
\* qualification candidate of the program has a strictly higher final_score
\* for it than the output without that candidate, every other input and the
\* filters being the same.
C14_QualificationCandidateRaisesScore ==
    rec.pc = "done" =>
        \A i \in 1..Len(rec.qualification_recommendations) :
            Nominates(rec.interest_recommendations,
                      rec.qualification_recommendations[i].program_id)
            => Less(FinalScoreIn(
                        CombineAndScoreRecommendations(
                            rec.interest_recommendations,
                            Without(rec.qualification_recommendations, i),
                            rec.test_score_recommendations, rec.request),
                        rec.qualification_recommendations[i].program_id),
                    FinalScoreIn(rec.recommendations,
                        rec.qualification_recommendations[i].program_id))

\* C14 witness: the combiner ran on a program both the interest and the
\* qualification source nominated, under a country filter it does not match
C14_Witness ==
    /\ rec.pc = "done"
    /\ rec.request.preferred_countries.given
    /\ \E p \in Programs :
        /\ Nominates(rec.interest_recommendations, p)
        /\ Nominates(rec.qualification_recommendations, p)
        /\ ProgramRow(p).country # "Germany"

\* the factors of C15
StatedCountryFactor(entry, request) ==
    IF ~request.preferred_countries.given THEN Ratio(1, 1)
    ELSE IF \E i \in 1..Len(request.preferred_countries.value) :
                request.preferred_countries.value[i] = entry.country
    THEN Ratio(12, 10)
    ELSE Ratio(7, 10)

StatedFeeFactor(entry, request) ==
    IF /\ request.max_tuition_fee.given
       /\ entry.tuition_fee # 0
       /\ entry.tuition_fee > request.max_tuition_fee.value
    THEN Ratio(5, 10)
    ELSE Ratio(1, 1)

StatedLanguageFactor(entry, request) ==
    IF entry.language = request.language_preference THEN Ratio(11, 10)
    ELSE Ratio(1, 1)

\* C15 as stated: final_score = weighted score x c x b x l, with c = 1.2 for
\* a country in the given list, 0.7 for one not in it, 1 without a list;
\* b = 0.5 when a maximum fee is given and the fee of the program exceeds
\* it, else 1; l = 1.1 when the language is the preferred one, else 1.
C15_IndependentMultipliers ==
    rec.pc = "done" =>
        \A i \in 1..Len(rec.recommendations) :
            rec.recommendations[i].final_score =
                Times(Times(Times(WeightedSum(rec.recommendations[i].program_id),
                    StatedCountryFactor(rec.recommendations[i], rec.request)),
                    StatedFeeFactor(rec.recommendations[i], rec.request)),
                    StatedLanguageFactor(rec.recommendations[i], rec.request))

\* C20: before the adjustments the score of every program in the dict of
\* the combiner is 0.4 x interest + 0.5 x qualification + 0.3 x test score
\* over the sources that nominated it, a source that did not nominate it
\* adding 0; without filters that is the final_score of the output.
C20_WeightedSumOfSources ==
    /\ \A i \in 1..Len(Merged(rec.interest_recommendations,
                              rec.qualification_recommendations,
                              rec.test_score_recommendations)) :
        Merged(rec.interest_recommendations,
               rec.qualification_recommendations,
               rec.test_score_recommendations)[i].final_score
            = WeightedSum(Merged(rec.interest_recommendations,
                                 rec.qualification_recommendations,
                                 rec.test_score_recommendations)[i].program_id)
    /\ (rec.pc = "done" /\ NoFilters(rec.request)) =>
        \A i \in 1..Len(rec.recommendations) :
            rec.recommendations[i].final_score
                = WeightedSum(rec.recommendations[i].program_id)

\* C20 witness: the combiner ran without filters on a program all three
\* sources nominated and on a program only the test-score source nominated
C20_Witness ==
    /\ rec.pc = "done"
    /\ NoFilters(rec.request)
    /\ \E p, q \in Programs :
        /\ Nominates(rec.interest_recommendations, p)
        /\ Nominates(rec.qualification_recommendations, p)
        /\ Nominates(rec.test_score_recommendations, p)
        /\ ~Nominates(rec.interest_recommendations, q)
        /\ ~Nominates(rec.qualification_recommendations, q)
        /\ Nominates(rec.recommendations, q)

\* the program ids of a candidate list, in its order
IdsOf(recs) == [i \in 1..Len(recs) |-> recs[i].program_id]

\* the place at which the program is first met when the interest list, then
\* the qualification list, then the test-score list are read
FirstInserted(request, program_id) ==
    First({i \in 1..Len(IdsOf(request.interest_recommendations)
                        \o IdsOf(request.qualification_recommendations)
                        \o IdsOf(request.test_score_recommendations)) :
            (IdsOf(request.interest_recommendations)
                \o IdsOf(request.qualification_recommendations)
                \o IdsOf(request.test_score_recommendations))[i] = program_id})

\* C21: the output of the combiner is ordered by the adjusted final_score,
\* non-increasing from first to last, and two programs of equal final_score
\* stay in the order in which they were first inserted: interest candidates,
\* then new qualification candidates, then new test-score candidates
C21_SortedByFinalScoreStable ==
    rec.pc = "done" =>
        \A i, j \in 1..Len(rec.recommendations) :
            i < j =>
                /\ ~Less(rec.recommendations[i].final_score,
                         rec.recommendations[j].final_score)
                /\ rec.recommendations[i].final_score
                        = rec.recommendations[j].final_score
                    => FirstInserted(rec, rec.recommendations[i].program_id)
                        < FirstInserted(rec, rec.recommendations[j].program_id)

\* C21 witness: the combiner has returned two programs of equal final_score,
\* one nominated by the interest source alone and one inserted later by the
\* qualification source
C21_Witness ==
    /\ rec.pc = "done"
    /\ \E i, j \in 1..Len(rec.recommendations) :
        /\ i < j
        /\ rec.recommendations[i].final_score
                = rec.recommendations[j].final_score
        /\ rec.recommendations[i].recommendation_type
                # rec.recommendations[j].recommendation_type

\* the program ids of a candidate list, as a set
IdSet(recs) == {recs[i].program_id : i \in 1..Len(recs)}

\* C22: the output of the combiner has each program id at most once, and
\* the program ids of the output are exactly those of the three input
\* lists together, whatever country, fee and language filters are given
C22_DeduplicatesAndDropsNothing ==
    rec.pc = "done" =>
        /\ \A i, j \in 1..Len(rec.recommendations) :
            rec.recommendations[i].program_id
                    = rec.recommendations[j].program_id => i = j
        /\ IdSet(rec.recommendations)
            = IdSet(rec.interest_recommendations)
                \cup IdSet(rec.qualification_recommendations)
                \cup IdSet(rec.test_score_recommendations)

\* C22 witness: the combiner ran with all three filters on a program that
\* two sources nominated and that misses the country, and on a program
\* over the maximum fee
C22_Witness ==
    /\ rec.pc = "done"
    /\ rec.request.preferred_countries.given
    /\ GivenNumber(rec.request.max_tuition_fee)
    /\ rec.request.language_preference # "<None>"
    /\ \E p, q \in Programs :
        /\ Nominates(rec.qualification_recommendations, p)
        /\ Nominates(rec.test_score_recommendations, p)
        /\ ProgramRow(p).country # "Germany"
        /\ Nominates(rec.interest_recommendations, q)
        /\ ProgramRow(q).tuition_fee > rec.request.max_tuition_fee.value

\* the call of the method has returned
HasReturned(method) == helper.pc = "returned" /\ helper.method = method

\* the score of an interest at its level
AtLevel(interest, high, medium, low) ==
    CASE interest.interest_level = "high" -> high
      [] interest.interest_level = "medium" -> medium
      [] interest.interest_level = "low" -> low

\* the two texts are equal whatever the case of their letters
SameText(a, b) == Lower(a) = Lower(b)

\* the interests whose field equals the field of the program
ExactInterests(user_interests, field) ==
    {i \in 1..Len(user_interests) :
        SameText(user_interests[i].field_of_study, field)}

\* the interests whose field contains the field of the program or is
\* contained in it
SubstringInterests(user_interests, field) ==
    {i \in 1..Len(user_interests) :
        Related(user_interests[i].field_of_study, field)}

\* 90/70/50 for an equal field, otherwise 60/40/25 for a substring match:
\* the scores the interests of the user allow
StatedInterestScores(user_interests, field) ==
    IF ExactInterests(user_interests, field) # {}
    THEN {AtLevel(user_interests[i], 90, 70, 50) :
            i \in ExactInterests(user_interests, field)}
    ELSE IF SubstringInterests(user_interests, field) # {}
    THEN {AtLevel(user_interests[i], 60, 40, 25) :
            i \in SubstringInterests(user_interests, field)}
    ELSE {0}

\* 20 when the field equals a preferred field, 10 for a substring match
StatedPreferredBonus(preferred_fields, field) ==
    IF ~preferred_fields.given THEN 0
    ELSE IF \E i \in 1..Len(preferred_fields.value) :
                SameText(preferred_fields.value[i], field)
    THEN 20
    ELSE IF \E i \in 1..Len(preferred_fields.value) :
                Related(preferred_fields.value[i], field)
    THEN 10
    ELSE 0

Capped(score) == IF score > 100 THEN 100 ELSE score

\* C23: the interest match score is 90/70/50 for a field equal to an
\* interest of the user at high/medium/low level, otherwise 60/40/25 for a
\* substring match, plus 20 when the field equals a preferred field (10 for
\* a substring match), capped at 100; one high-level interest in exactly
\* the field of the program and no preferred fields give exactly 90
C23_InterestMatchScore ==
    HasReturned("_calculate_interest_match_score") =>
        /\ \E score \in StatedInterestScores(helper.args.user_interests,
                                             helper.args.field_of_study) :
            helper.value =
                Ratio(Capped(score
                        + StatedPreferredBonus(helper.args.preferred_fields,
                                               helper.args.field_of_study)),
                      1)
        /\ ( /\ helper.args.user_interests
                    = <<[field_of_study |-> helper.args.field_of_study,
                         interest_level |-> "high"]>>
             /\ ~helper.args.preferred_fields.given )
            => helper.value = Ratio(90, 1)

\* the field of the program equals the field of an interest of the user,
\* contains it or is contained in it
MatchesAnInterest(user_interests, field) ==
    \E i \in 1..Len(user_interests) :
        Related(user_interests[i].field_of_study, field)

\* C24: every candidate of the interest-based generator has an exact or
\* substring match between the field of its program and an interest of the
\* user, also when the request gives preferred fields, and none has
\* match_score 0
C24_InterestCandidatesMatchAnInterest ==
    Answered =>
        \A i \in 1..Len(rec.interest_recommendations) :
            /\ MatchesAnInterest(interests,
                    ProgramRow(rec.interest_recommendations[i].program_id)
                        .field_of_study)
            /\ rec.interest_recommendations[i].match_score # Ratio(0, 1)

\* 100 when the best score of the user reaches the target, otherwise
\* min(100, 95 x user_score / target)
StatedContribution(user_score, required_score) ==
    IF user_score >= required_score THEN Ratio(100, 1)
    ELSE IF 95 * user_score < 100 * required_score
    THEN Ratio(95 * user_score, required_score)
    ELSE Ratio(100, 1)

\* the best score of the user in the test of the requirement, in hundredths
BestFor(user_test_scores, req) ==
    BestUserScore(MatchingScores(user_test_scores, MatchTestType(req)))

\* the requirement is a test or language requirement the method matched
\* with a score of the user
IsMatched(user_test_scores, req) ==
    /\ req.requirement_type \in {S_test_score, S_language}
    /\ MatchOne(user_test_scores, req).matched = 1

\* the sum of the stated contributions of the matched requirements, from
\* requirement i on
RECURSIVE StatedTotal(_, _, _)
StatedTotal(user_test_scores, requirements, i) ==
    IF i > Len(requirements) THEN Ratio(0, 1)
    ELSE IF IsMatched(user_test_scores, requirements[i])
    THEN Plus(StatedContribution(BestFor(user_test_scores, requirements[i]),
                    ParseFloat(requirements[i].requirement_value).val),
              StatedTotal(user_test_scores, requirements, i + 1))
    ELSE StatedTotal(user_test_scores, requirements, i + 1)

MatchedCount(user_test_scores, requirements) ==
    Cardinality({i \in 1..Len(requirements) :
                    IsMatched(user_test_scores, requirements[i])})

\* C25: the test-score match value is the mean, over the matched test and
\* language requirements, of 100 for a best score at or above the target
\* and min(100, 95 x user_score / target) below it, and the flat 60 when no
\* requirement is matched
C25_TestScoreMatchValue ==
    HasReturned("_calculate_test_score_match") =>
        helper.value =
            IF MatchedCount(helper.args.user_test_scores,
                            helper.args.requirements) = 0
            THEN Ratio(60, 1)
            ELSE Times(StatedTotal(helper.args.user_test_scores,
                                   helper.args.requirements, 1),
                       Ratio(1, MatchedCount(helper.args.user_test_scores,
                                             helper.args.requirements)))

\* the text is a number
IsNumber(text) == ParseFloat(text).ok

\* the completed qualifications with a grade point whose grade point and
\* maximum (4.0 when there is none) are numbers, the maximum not 0
WithNormalizedGpa(quals) ==
    {i \in 1..Len(quals) :
        /\ quals[i].is_completed
        /\ Truthy(quals[i].grade_point)
        /\ IsNumber(quals[i].grade_point)
        /\ Truthy(quals[i].max_grade_point) =>
            /\ IsNumber(quals[i].max_grade_point)
            /\ ParseFloat(quals[i].max_grade_point).val # 0}

\* (grade_point / (max_grade_point or 4.0)) x 4.0 >= target, in hundredths
NormalizedGpaReaches(qual, target) ==
    4 * 100 * ParseFloat(qual.grade_point).val
        >= target * (IF Truthy(qual.max_grade_point)
                     THEN ParseFloat(qual.max_grade_point).val
                     ELSE 400)

\* C26: a gpa requirement is met exactly when the highest normalized GPA of
\* the completed qualifications with a grade point reaches the target; a
\* qualification whose grade point or maximum is no number, or whose
\* maximum is 0, is skipped without raising, and the requirement is unmet
\* when no qualification yields a value; 3.8 of 4.0 against 3.5 is met
C26_GpaRequirement ==
    HasReturned("_check_gpa_requirement") =>
        /\ ~helper.value.raised
        /\ helper.value.is_met
            <=> \E i \in WithNormalizedGpa(helper.args.qualifications) :
                    NormalizedGpaReaches(helper.args.qualifications[i],
                        ParseFloat(helper.args.requirement.requirement_value).val)
        /\ ( /\ helper.args.requirement.requirement_value = S_3_5
             /\ helper.args.qualifications
                    = <<[qualification_type |-> S_bachelor,
                         is_completed |-> TRUE, grade_point |-> S_3_8,
                         max_grade_point |-> S_4_0]>> )
            => helper.value.is_met

\* high_school(1) < diploma(2) = certificate(2) < bachelor(3) < master(4)
\* < phd(5)
Level ==
    (S_high_school :> 1) @@ (S_diploma :> 2) @@ (S_certificate :> 2)
        @@ (S_bachelor :> 3) @@ (S_master :> 4) @@ (S_phd :> 5)

\* C27: a degree_level requirement whose target is a level of the fixed
\* order is met exactly when a completed qualification of the user ranks at
\* least as high as the target; qualifications not marked completed never
\* count, and a user with no completed qualification never meets it
C27_DegreeRequirement ==
    ( /\ HasReturned("_check_degree_requirement")
      /\ Lower(helper.args.requirement.requirement_value) \in DOMAIN Level )
    => /\ ~helper.value.raised
       /\ helper.value.is_met
            <=> \E i \in 1..Len(helper.args.qualifications) :
                  /\ helper.args.qualifications[i].is_completed
                  /\ Level[helper.args.qualifications[i].qualification_type]
                       >= Level[Lower(helper.args.requirement.requirement_value)]

\* C27 witness: a completed certificate met the target diploma, the phd of
\* the user not being completed
C27_Witness ==
    /\ HasReturned("_check_degree_requirement")
    /\ helper.args.requirement.requirement_value = S_diploma
    /\ helper.args.qualifications
        = <<[qualification_type |-> S_phd, is_completed |-> FALSE,
             grade_point |-> None, max_grade_point |-> None],
            [qualification_type |-> S_certificate, is_completed |-> TRUE,
             grade_point |-> None, max_grade_point |-> None]>>
    /\ helper.value.is_met

\* the language tests
LanguageTests == {S_IELTS, S_TOEFL, S_TOEIC, S_PTE}

\* the score is of a language test, has not expired on the day and reaches
\* the target
PassesLanguageTest(score, target, today) ==
    /\ Upper(score.test_type) \in LanguageTests
    /\ score.expiry_date = <<>> \/ score.expiry_date[1] > today
    /\ ParseFloat(score.score).val >= ParseFloat(target).val

\* C28: a language requirement is met whenever the user holds an unexpired
\* score in one of the language tests (IELTS, TOEFL, TOEIC, PTE) that
\* reaches the target, and is unmet only if none of the language tests
\* passes, also when neither the test_type nor the description of the
\* requirement names a test
C28_LanguageRequirement ==
    HasReturned("_check_language_requirement") =>
        /\ ~helper.value.raised
        /\ helper.value.is_met
            <=> \E score \in helper.args.test_scores :
                    PassesLanguageTest(score,
                        helper.args.requirement.requirement_value,
                        helper.args.today)

\* one of the two texts is inside the other
OneInsideTheOther(a, b) == Contains(a, b) \/ Contains(b, a)

\* the distance of two numbers
Distance(a, b) == IF a > b THEN a - b ELSE b - a

\* 40 for the same field (20 for a substring), 30 for the same degree
\* level, 15 for the same language, 10 for the same duration, 5 for known
\* world rankings less than 50 apart
StatedSimilarity(a, b) ==
    (IF a.field_of_study = b.field_of_study THEN 40
     ELSE IF OneInsideTheOther(a.field_of_study, b.field_of_study) THEN 20
     ELSE 0)
    + (IF a.degree_level = b.degree_level THEN 30 ELSE 0)
    + (IF a.language = b.language THEN 15 ELSE 0)
    + (IF a.duration_years = b.duration_years THEN 10 ELSE 0)
    + (IF a.ranking_world # 0 /\ b.ranking_world # 0
            /\ Distance(a.ranking_world, b.ranking_world) < 50
       THEN 5 ELSE 0)

\* C29: the similarity of two programs is the sum of 40 for the same field
\* of study (20 for a substring), 30 for the same degree level, 15 for the
\* same language, 10 for the same duration and 5 for known world rankings
\* less than 50 apart; it lies in [0, 100] and is the same with the two
\* programs exchanged
C29_ProgramSimilarity ==
    HasReturned("_calculate_program_similarity") =>
        /\ helper.value
            = Ratio(StatedSimilarity(helper.args.program1,
                                     helper.args.program2), 1)
        /\ ~Less(helper.value, Ratio(0, 1))
        /\ ~Less(Ratio(100, 1), helper.value)
        /\ helper.value
            = CalculateProgramSimilarity(helper.args.program2,
                                         helper.args.program1)

\* C29 witness: the method has scored two programs of which the field of
\* the second is inside the field of the first, of the same degree level,
\* language and duration, at universities ranked 59 and 10
C29_Witness ==
    /\ HasReturned("_calculate_program_similarity")
    /\ helper.args.program1.field_of_study = S_cs
    /\ helper.args.program2.field_of_study = S_c
    /\ helper.args.program1.ranking_world = 59
    /\ helper.args.program2.ranking_world = 10
    /\ helper.value = Ratio(80, 1)

\* the commit of the save of the latest call failed
SaveFailed(call) == call.outcome = "raised" /\ call.exc = "SQLAlchemyError"

\* C30: when the commit of the save fails inside check_user_qualification,
\* the error reaches the caller (the route answers 500) and the status
\* store is as it was before the call: no new row for the pair, no field
\* of an existing row changed
C30_FailedSaveLeavesStoreUnchanged ==
    [][SaveFailed(last_call')
        => /\ status' = status
           /\ last_call'.http_status = 500]_vars

\* C30 witness: the save of a check failed on a later day than the one on
\* which the row of the pair was written
C30_Witness ==
    /\ SaveFailed(last_call)
    /\ \E i \in 1..Len(status) :
        /\ status[i].user_id = last_call.user_id
        /\ status[i].program_id = last_call.program_id
        /\ status[i].last_checked < now

====
